---- MODULE Spec2Model ----
(***************************************************************************)
(* gh-actlock: pinning of `uses:` references of workflow files to commit   *)
(* SHAs.  The model follows the newest revision of each file of the        *)
(* repository: cmd/root.go (second revision: the traversal, the handlers,  *)
(* the line rewriter and UpdateWorkflowActionSHAs), the resolver that      *)
(* handles annotated tags, githubclient/client.go (GetLatestActionRef) and *)
(* package parser (ParseActionReference, ParseWorkflowYAML).               *)
(*                                                                         *)
(* A Go string is modelled as a sequence of atoms.  An atom is either one  *)
(* of the characters the code looks at ("/", "@", ":", ".", " ", "#", the  *)
(* tab, the carriage return, the newline, "-", "{", "}"), a mapping key    *)
(* with its colon ("uses:", "name:", "steps:") or a word: a piece of text  *)
(* that contains none of these characters and that the code never splits.  *)
(* len(s) is the sum of the atoms' lengths.                                *)
(***************************************************************************)
EXTENDS Integers, Sequences, FiniteSets, TLC

VARIABLES
    remote,       \* the state of the remote (GitHub) the client talks to
    rin,          \* arguments of one call of ResolveRefToSHA
    rout,         \* what that call returned
    rpc,          \* "call" before the call, "ret" after it
    Update,       \* the mode flag: TRUE for update mode, FALSE for pin mode
    disk,         \* the content of the workflow file
    pc,           \* where UpdateWorkflowActionSHAs stands
    fileData,     \* data, the content it read
    fileRoot,     \* root, the parsed document
    pos,          \* the next `uses` value of the traversal
    fileUpdates,  \* updates, the map[int]string: line number -> replacement value
    fileUpdatesMade, \* updatesMade, the counter of scheduled updates
    ret,          \* what UpdateWorkflowActionSHAs returned: [n, err]
    remoteCalls,  \* the remote calls of this run, in order
    writes,       \* the number of os.WriteFile calls of this run
    trace,        \* what each handleUsesValue call of this run did
    run,          \* "first" or "second" run of the command
    prev          \* what the first run returned, read and wrote

(***************************************************************************)
(* Strings                                                                 *)
(***************************************************************************)
EmptyString == <<>>

\* len(s) of Go: the number of bytes of the string.
RECURSIVE StrLen(_)
StrLen(s) == IF s = <<>> THEN 0 ELSE Len(Head(s)) + StrLen(Tail(s))

SP == " "
TAB == "\t"
CR == "\r"
NL == "\n"

\* strings.HasPrefix
HasPrefix(s, prefix) == Len(s) >= Len(prefix) /\ SubSeq(s, 1, Len(prefix)) = prefix

\* strings.Index for a one-character separator: the first position of sep, 0 if none.
Index(s, sep) ==
    IF \E i \in 1..Len(s) : s[i] = sep
    THEN CHOOSE i \in 1..Len(s) : s[i] = sep /\ \A j \in 1..(i - 1) : s[j] # sep
    ELSE 0

\* strings.SplitN(s, sep, 2)
SplitN2(s, sep) ==
    LET i == Index(s, sep)
    IN  IF i = 0 THEN <<s>> ELSE <<SubSeq(s, 1, i - 1), SubSeq(s, i + 1, Len(s))>>

\* strings.Split(s, sep)
RECURSIVE Split(_, _)
Split(s, sep) ==
    LET i == Index(s, sep)
    IN  IF i = 0 THEN <<s>>
        ELSE <<SubSeq(s, 1, i - 1)>> \o Split(SubSeq(s, i + 1, Len(s)), sep)

\* strings.TrimLeft(s, cutset)
RECURSIVE TrimLeft(_, _)
TrimLeft(s, cutset) ==
    IF s # <<>> /\ Head(s) \in cutset THEN TrimLeft(Tail(s), cutset) ELSE s

RECURSIVE TrimRight(_, _)
TrimRight(s, cutset) ==
    IF s # <<>> /\ s[Len(s)] \in cutset THEN TrimRight(SubSeq(s, 1, Len(s) - 1), cutset) ELSE s

\* strings.TrimSpace
WhiteSpace == {SP, TAB, CR, NL}
TrimSpace(s) == TrimRight(TrimLeft(s, WhiteSpace), WhiteSpace)

\* strings.Contains(s, ".yml") || strings.Contains(s, ".yaml")
ContainsYamlSuffix(s) ==
    \E i \in 1..(Len(s) - 1) : s[i] = "." /\ s[i + 1] \in {"yml", "yaml"}

Sha1 == "11bd71901bbe5b1630ceea73d27597364c9af683"
Sha2 == "a5ac7e51b41094c92402da3b24376905380afc29"
Sha3 == "d35c59abb061a4a6fb18e82ac0862c26744d6ab5"
TagObj1 == "7da1f735f5f18ecf049b40ab75503b1191756456"
TagObj2 == "ac638b010cf58a27ee6c972d7336334ccaf61c96"
Tree1 == "5e21ff4d9bc1a8cf6de233a3057d20ec6b3fb69d"
NonHex40 == "release-candidate-for-the-next-version-x"
ShortHex == "abc1234"

\* The words made of hexadecimal digits only.
HexWords == {Sha1, Sha2, Sha3, TagObj1, TagObj2, Tree1, ShortHex}

SHALength == 40

isHexDigit(b) == b \in HexWords

IsHexString(s) == \A i \in 1..Len(s) : isHexDigit(s[i])

(***************************************************************************)
(* The remote, as the go-github client shows it.  One repository exists,   *)
(* RepoOwner/RepoName; every lookup in another repository answers 404.     *)
(* A response is [st, hasObj, type, sha]: st is "ok", "404" (an            *)
(* ErrorResponse with status 404) or "err" (any other failure); hasObj     *)
(* says whether the object and its SHA are present in the body.            *)
(***************************************************************************)
RepoOwner == <<"o">>
RepoName == <<"r">>

Resp(st, hasObj, type, sha) == [st |-> st, hasObj |-> hasObj, type |-> type, sha |-> sha]
NotFound == Resp("404", FALSE, "", EmptyString)
Failure == Resp("err", FALSE, "", EmptyString)
NilObject == Resp("ok", FALSE, "", EmptyString)
Object(type, sha) == Resp("ok", TRUE, type, <<sha>>)
\* A commit lookup that succeeds: the code reads nothing of the body.
CommitExists == Resp("ok", FALSE, "", EmptyString)

InRepo(owner, repo) == owner = RepoOwner /\ repo = RepoName

\* What the API answers about any other repository: not found, or a
\* transport error.
Elsewhere(rem) == Resp(rem.elsewhere, FALSE, "", EmptyString)

\* client.Git.GetCommit(ctx, owner, repo, sha)
GetCommit(rem, owner, repo, sha) ==
    IF ~InRepo(owner, repo) THEN Elsewhere(rem)
    ELSE IF sha \in DOMAIN rem.commits THEN rem.commits[sha] ELSE NotFound

\* client.Git.GetRef(ctx, owner, repo, "refs/tags/" + ref)
GetTagRef(rem, owner, repo, ref) ==
    IF ~InRepo(owner, repo) THEN Elsewhere(rem)
    ELSE IF ref \in DOMAIN rem.tags THEN rem.tags[ref] ELSE NotFound

\* client.Git.GetTag(ctx, owner, repo, tagObjectSHA)
GetTag(rem, owner, repo, sha) ==
    IF ~InRepo(owner, repo) THEN Elsewhere(rem)
    ELSE IF sha \in DOMAIN rem.tagObjs THEN rem.tagObjs[sha] ELSE NotFound

\* client.Git.GetRef(ctx, owner, repo, "refs/heads/" + ref)
GetBranchRef(rem, owner, repo, ref) ==
    IF ~InRepo(owner, repo) THEN Elsewhere(rem)
    ELSE IF ref \in DOMAIN rem.heads THEN rem.heads[ref] ELSE NotFound

Call(op, owner, repo, arg) == [op |-> op, owner |-> owner, repo |-> repo, arg |-> arg]

isNotFoundError(resp) == resp.st = "404"

(***************************************************************************)
(* githubclient: ResolveRefToSHA and its three steps.  Every result        *)
(* carries the remote calls the step issued, in order.                     *)
(***************************************************************************)
StepResult(sha, found, err, notFound, calls) ==
    [sha |-> sha, found |-> found, err |-> err, notFound |-> notFound, calls |-> calls]

\* Mutants of verifyCommitSHA: the reference is trusted by its shape, with no
\* lookup; the shape test looks at the length only.
verifyCommitSHA_NoLookup(rem, owner, repo, ref) ==
    IF StrLen(ref) # SHALength \/ ~IsHexString(ref)
    THEN StepResult(EmptyString, FALSE, "", FALSE, <<>>)
    ELSE StepResult(ref, TRUE, "", FALSE, <<>>)

verifyCommitSHA_LengthOnly(rem, owner, repo, ref) ==
    IF StrLen(ref) # SHALength
    THEN StepResult(EmptyString, FALSE, "", FALSE, <<>>)
    ELSE LET resp == GetCommit(rem, owner, repo, ref)
             calls == <<Call("GetCommit", owner, repo, ref)>>
         IN  IF resp.st # "ok"
             THEN IF isNotFoundError(resp)
                  THEN StepResult(EmptyString, FALSE, "", FALSE, calls)
                  ELSE StepResult(EmptyString, FALSE, "failed to verify commit SHA", FALSE, calls)
             ELSE StepResult(ref, TRUE, "", FALSE, calls)

verifyCommitSHA(rem, owner, repo, ref) ==
    IF StrLen(ref) # SHALength \/ ~IsHexString(ref)
    THEN StepResult(EmptyString, FALSE, "", FALSE, <<>>)
    ELSE LET resp == GetCommit(rem, owner, repo, ref)
             calls == <<Call("GetCommit", owner, repo, ref)>>
         IN  IF resp.st # "ok"
             THEN IF isNotFoundError(resp)
                  THEN StepResult(EmptyString, FALSE, "", FALSE, calls)
                  ELSE StepResult(EmptyString, FALSE, "failed to verify commit SHA", FALSE, calls)
             ELSE StepResult(ref, TRUE, "", FALSE, calls)

\* Mutant of resolveTagToSHA: the tag object is fetched whatever the type of
\* the reference's object.
resolveTagToSHA_AlwaysFetches(rem, owner, repo, ref) ==
    LET respRef == GetTagRef(rem, owner, repo, ref)
        c1 == <<Call("GetRef/tags", owner, repo, ref)>>
    IN  IF respRef.st # "ok"
        THEN IF isNotFoundError(respRef)
             THEN StepResult(EmptyString, FALSE, "", FALSE, c1)
             ELSE StepResult(EmptyString, FALSE, "failed to get tag ref", FALSE, c1)
        ELSE IF ~respRef.hasObj
        THEN StepResult(EmptyString, FALSE, "tag ref returned nil object", FALSE, c1)
        ELSE LET respTag == GetTag(rem, owner, repo, respRef.sha)
                 c2 == c1 \o <<Call("GetTag", owner, repo, respRef.sha)>>
             IN  IF respRef.type = "commit"
                 THEN StepResult(respRef.sha, TRUE, "", FALSE, c2)
                 ELSE IF respRef.type # "tag"
                 THEN StepResult(EmptyString, FALSE, "tag ref points to unexpected object type",
                                 FALSE, c2)
                 ELSE IF respTag.st # "ok"
                 THEN StepResult(EmptyString, FALSE, "failed to get tag object",
                                 isNotFoundError(respTag), c2)
                 ELSE IF ~respTag.hasObj
                 THEN StepResult(EmptyString, FALSE, "tag object returned nil object", FALSE, c2)
                 ELSE IF respTag.type # "commit"
                 THEN StepResult(EmptyString, FALSE, "tag object points to non-commit", FALSE, c2)
                 ELSE StepResult(respTag.sha, TRUE, "", FALSE, c2)
\* Mutant of resolveTagToSHA: the tag reference's own SHA is the answer whatever
\* its object type (an annotated tag yields the tag object's SHA).
resolveTagToSHA_AnnotatedAsRef(rem, owner, repo, ref) ==
    LET respRef == GetTagRef(rem, owner, repo, ref)
        c1 == <<Call("GetRef/tags", owner, repo, ref)>>
    IN  IF respRef.st # "ok"
        THEN IF isNotFoundError(respRef)
             THEN StepResult(EmptyString, FALSE, "", FALSE, c1)
             ELSE StepResult(EmptyString, FALSE, "failed to get tag ref", FALSE, c1)
        ELSE IF ~respRef.hasObj
        THEN StepResult(EmptyString, FALSE, "tag ref returned nil object", FALSE, c1)
        ELSE StepResult(respRef.sha, TRUE, "", FALSE, c1)

resolveTagToSHA(rem, owner, repo, ref) ==
    LET respRef == GetTagRef(rem, owner, repo, ref)
        c1 == <<Call("GetRef/tags", owner, repo, ref)>>
    IN  IF respRef.st # "ok"
        THEN IF isNotFoundError(respRef)
             THEN StepResult(EmptyString, FALSE, "", FALSE, c1)
             ELSE StepResult(EmptyString, FALSE, "failed to get tag ref", FALSE, c1)
        ELSE IF ~respRef.hasObj
        THEN StepResult(EmptyString, FALSE, "tag ref returned nil object", FALSE, c1)
        ELSE CASE respRef.type = "commit" ->
                    StepResult(respRef.sha, TRUE, "", FALSE, c1)
               [] respRef.type = "tag" ->
                    LET tagObjectSHA == respRef.sha
                        respTag == GetTag(rem, owner, repo, tagObjectSHA)
                        c2 == c1 \o <<Call("GetTag", owner, repo, tagObjectSHA)>>
                    IN  IF respTag.st # "ok"
                        THEN StepResult(EmptyString, FALSE, "failed to get tag object",
                                        isNotFoundError(respTag), c2)
                        ELSE IF ~respTag.hasObj
                        THEN StepResult(EmptyString, FALSE, "tag object returned nil object",
                                        FALSE, c2)
                        ELSE IF respTag.type # "commit"
                        THEN StepResult(EmptyString, FALSE, "tag object points to non-commit",
                                        FALSE, c2)
                        ELSE StepResult(respTag.sha, TRUE, "", FALSE, c2)
               [] OTHER ->
                    StepResult(EmptyString, FALSE, "tag ref points to unexpected object type",
                               FALSE, c1)

\* Mutant of resolveBranchToSHA: a reference without an object counts as found.
resolveBranchToSHA_NilFound(rem, owner, repo, ref) ==
    LET resp == GetBranchRef(rem, owner, repo, ref)
        calls == <<Call("GetRef/heads", owner, repo, ref)>>
    IN  IF resp.st # "ok"
        THEN IF isNotFoundError(resp)
             THEN StepResult(EmptyString, FALSE, "", FALSE, calls)
             ELSE StepResult(EmptyString, FALSE, "failed to get branch ref", FALSE, calls)
        ELSE IF resp.hasObj /\ resp.type # "commit"
        THEN StepResult(EmptyString, FALSE, "branch ref points to unexpected object type",
                        FALSE, calls)
        ELSE StepResult(resp.sha, TRUE, "", FALSE, calls)

resolveBranchToSHA(rem, owner, repo, ref) ==
    LET resp == GetBranchRef(rem, owner, repo, ref)
        calls == <<Call("GetRef/heads", owner, repo, ref)>>
    IN  IF resp.st # "ok"
        THEN IF isNotFoundError(resp)
             THEN StepResult(EmptyString, FALSE, "", FALSE, calls)
             ELSE StepResult(EmptyString, FALSE, "failed to get branch ref", FALSE, calls)
        ELSE IF ~resp.hasObj
        THEN StepResult(EmptyString, FALSE, "branch ref returned nil object", FALSE, calls)
        ELSE IF resp.type # "commit"
        THEN StepResult(EmptyString, FALSE, "branch ref points to unexpected object type",
                        FALSE, calls)
        ELSE StepResult(resp.sha, TRUE, "", FALSE, calls)

\* The errors ResolveRefToSHA returns; NoError is Go's nil.
ResolveError(kind, ref, owner, repo) ==
    [kind |-> kind, ref |-> ref, owner |-> owner, repo |-> repo]
NoError == ResolveError("", EmptyString, EmptyString, EmptyString)

ResolveResult(sha, err, calls, warnings) ==
    [sha |-> sha, err |-> err, calls |-> calls, warnings |-> warnings]

\* Mutant of ResolveRefToSHA: an error of a step ends the call.
ResolveRefToSHA_StopsAtError(rem, client, owner, repo, ref) ==
    IF ~client \/ owner = EmptyString \/ repo = EmptyString \/ ref = EmptyString
    THEN ResolveResult(EmptyString,
                       ResolveError("invalid input", EmptyString, EmptyString, EmptyString),
                       <<>>, <<>>)
    ELSE
    LET v == verifyCommitSHA(rem, owner, repo, ref)
        t == resolveTagToSHA(rem, owner, repo, ref)
        b == resolveBranchToSHA(rem, owner, repo, ref)
        notFoundErr == ResolveError("reference not found as a tag or branch", ref, owner, repo)
    IN  IF v.err # ""
        THEN ResolveResult(EmptyString, notFoundErr, v.calls, <<v.err>>)
        ELSE IF v.found
        THEN ResolveResult(v.sha, NoError, v.calls, <<>>)
        ELSE IF t.err # ""
        THEN ResolveResult(EmptyString, notFoundErr, v.calls \o t.calls, <<t.err>>)
        ELSE IF t.found
        THEN ResolveResult(t.sha, NoError, v.calls \o t.calls, <<>>)
        ELSE IF b.err = "" /\ b.found
        THEN ResolveResult(b.sha, NoError, v.calls \o t.calls \o b.calls, <<>>)
        ELSE ResolveResult(EmptyString, notFoundErr, v.calls \o t.calls \o b.calls, <<>>)
\* Mutant of ResolveRefToSHA: the branch is looked up before the tag.
ResolveRefToSHA_BranchFirst(rem, client, owner, repo, ref) ==
    IF ~client \/ owner = EmptyString \/ repo = EmptyString \/ ref = EmptyString
    THEN ResolveResult(EmptyString,
                       ResolveError("invalid input", EmptyString, EmptyString, EmptyString),
                       <<>>, <<>>)
    ELSE
    LET v == verifyCommitSHA(rem, owner, repo, ref)
        b == resolveBranchToSHA(rem, owner, repo, ref)
        t == resolveTagToSHA(rem, owner, repo, ref)
    IN  IF v.err = "" /\ v.found
        THEN ResolveResult(v.sha, NoError, v.calls, <<>>)
        ELSE IF b.err = "" /\ b.found
        THEN ResolveResult(b.sha, NoError, v.calls \o b.calls, <<>>)
        ELSE IF t.err = "" /\ t.found
        THEN ResolveResult(t.sha, NoError, v.calls \o b.calls \o t.calls, <<>>)
        ELSE ResolveResult(EmptyString,
                           ResolveError("reference not found as a tag or branch",
                                        ref, owner, repo),
                           v.calls \o b.calls \o t.calls, <<>>)

ResolveRefToSHA(rem, client, owner, repo, ref) ==
    IF ~client
    THEN ResolveResult(EmptyString,
                       ResolveError("github client is nil", EmptyString, EmptyString, EmptyString),
                       <<>>, <<>>)
    ELSE IF owner = EmptyString \/ repo = EmptyString \/ ref = EmptyString
    THEN ResolveResult(EmptyString,
                       ResolveError("owner, repo, and ref must not be empty",
                                    EmptyString, EmptyString, EmptyString),
                       <<>>, <<>>)
    ELSE
    LET v == verifyCommitSHA(rem, owner, repo, ref)
        w1 == IF v.err # "" THEN <<v.err>> ELSE <<>>
    IN  IF v.err = "" /\ v.found
        THEN ResolveResult(v.sha, NoError, v.calls, <<>>)
        ELSE
        LET t == resolveTagToSHA(rem, owner, repo, ref)
            w2 == IF t.err # "" /\ ~t.notFound THEN w1 \o <<t.err>> ELSE w1
        IN  IF t.err = "" /\ t.found
            THEN ResolveResult(t.sha, NoError, v.calls \o t.calls, w1)
            ELSE
            LET b == resolveBranchToSHA(rem, owner, repo, ref)
                w3 == IF b.err # "" /\ ~b.notFound THEN w2 \o <<b.err>> ELSE w2
            IN  IF b.err = "" /\ b.found
                THEN ResolveResult(b.sha, NoError, v.calls \o t.calls \o b.calls, w2)
                ELSE ResolveResult(EmptyString,
                                   ResolveError("reference not found as a tag or branch",
                                                ref, owner, repo),
                                   v.calls \o t.calls \o b.calls, w3)

(***************************************************************************)
(* githubclient: GetLatestActionRef.  The remote's latest release is       *)
(* [st, hasTag, tag]; its tag list is [st, tags], each tag being           *)
(* [hasName, name, hasSha, sha].                                           *)
(***************************************************************************)
Release(st, hasTag, tag) == [st |-> st, hasTag |-> hasTag, tag |-> tag]
NoRelease == Release("404", FALSE, EmptyString)
TagList(st, tags) == [st |-> st, tags |-> tags]
TagEntry(name, sha) == [hasName |-> TRUE, name |-> name, hasSha |-> TRUE, sha |-> <<sha>>]

\* client.Repositories.GetLatestRelease(ctx, owner, repo)
GetLatestRelease(rem, owner, repo) ==
    IF InRepo(owner, repo) THEN rem.release ELSE Release(rem.elsewhere, FALSE, EmptyString)

\* client.Repositories.ListTags(ctx, owner, repo, opt)
ListTags(rem, owner, repo) ==
    IF InRepo(owner, repo) THEN rem.tagList ELSE TagList(rem.elsewhere, <<>>)

LatestResult(ref, sha, err, calls) == [ref |-> ref, sha |-> sha, err |-> err, calls |-> calls]

\* The fallback of GetLatestActionRef: the first of the listed tags.  before
\* holds the remote calls issued so far.
LatestFromTags(rem, owner, repo, before) ==
    LET list == ListTags(rem, owner, repo)
        calls == before \o <<Call("ListTags", owner, repo, EmptyString)>>
    IN  IF list.st # "ok"
        THEN LatestResult(EmptyString, EmptyString, "error getting tags", calls)
        ELSE IF Len(list.tags) = 0
        THEN LatestResult(EmptyString, EmptyString, "no tags found", calls)
        ELSE IF ~list.tags[1].hasName \/ ~list.tags[1].hasSha
        THEN LatestResult(EmptyString, EmptyString, "invalid tag data", calls)
        ELSE LatestResult(list.tags[1].name, list.tags[1].sha, "", calls)

\* The release branch of GetLatestActionRef: r is what ResolveRefToSHA
\* answered for the release's tag name.
LatestFromRelease(rem, owner, repo, tagName, r, before) ==
    IF r.err = NoError
    THEN LatestResult(tagName, r.sha, "", before \o r.calls)
    ELSE LatestFromTags(rem, owner, repo, before \o r.calls)

\* Mutant of GetLatestActionRef: the release's tag is not resolved, the tag
\* list is consulted every time.
GetLatestActionRef_SkipsRelease(rem, owner, repo) ==
    LatestFromTags(rem, owner, repo, <<Call("GetLatestRelease", owner, repo, EmptyString)>>)

\* Mutant of GetLatestActionRef: without a release whose tag resolves the
\* call fails, the tag list is not consulted.
GetLatestActionRef_ReleaseOnly(rem, owner, repo) ==
    LET release == GetLatestRelease(rem, owner, repo)
        c1 == <<Call("GetLatestRelease", owner, repo, EmptyString)>>
        r == ResolveRefToSHA(rem, TRUE, owner, repo, release.tag)
    IN  IF release.st = "ok" /\ release.hasTag /\ r.err = NoError
        THEN LatestResult(release.tag, r.sha, "", c1 \o r.calls)
        ELSE LatestResult(EmptyString, EmptyString, "no tags found", c1)
GetLatestActionRef(rem, owner, repo) ==
    LET release == GetLatestRelease(rem, owner, repo)
        c1 == <<Call("GetLatestRelease", owner, repo, EmptyString)>>
    IN  IF release.st = "ok" /\ release.hasTag
        THEN LatestFromRelease(rem, owner, repo, release.tag,
                               ResolveRefToSHA(rem, TRUE, owner, repo, release.tag), c1)
        ELSE LatestFromTags(rem, owner, repo, c1)

(***************************************************************************)
(* parser: ParseActionReference.  err = "" is Go's nil.                    *)
(***************************************************************************)
WorkflowAction(type, name, repo, ref) ==
    [Type |-> type, Name |-> name, Repo |-> repo, Ref |-> ref]

ParseResult(action, err) == [action |-> action, err |-> err]

\* Mutant of ParseActionReference: the value is split at every `@`, the ref
\* ends at the second one.
ParseActionReference_SplitsAtEveryAt(uses) ==
    IF uses = EmptyString
    THEN ParseResult(WorkflowAction("unknown", EmptyString, EmptyString, EmptyString),
                     "empty action reference")
    ELSE IF HasPrefix(uses, <<".", "/">>) \/ HasPrefix(uses, <<".", ".", "/">>)
    THEN ParseResult(WorkflowAction("local", EmptyString, uses, EmptyString), "")
    ELSE IF HasPrefix(uses, <<"docker", ":", "/", "/">>)
    THEN LET fullImage == SubSeq(uses, 5, Len(uses))
             parts == SplitN2(fullImage, ":")
         IN  ParseResult(WorkflowAction("docker", EmptyString, parts[1],
                                        IF Len(parts) > 1 THEN parts[2] ELSE <<"latest">>), "")
    ELSE
    LET parts == Split(uses, "@")
        repoPath == parts[1]
        pathParts == SplitN2(repoPath, "/")
    IN  IF Len(parts) <= 1
        THEN ParseResult(WorkflowAction("github", EmptyString, EmptyString, EmptyString),
                         "missing explicit @ref")
        ELSE IF Len(pathParts) # 2
        THEN ParseResult(WorkflowAction("github", EmptyString, EmptyString, parts[2]),
                         "invalid GitHub action format")
        ELSE IF pathParts[1] = EmptyString \/ pathParts[2] = EmptyString
                \/ parts[2] = EmptyString
        THEN ParseResult(WorkflowAction("github", pathParts[1], pathParts[2], parts[2]),
                         "incomplete GitHub action reference")
        ELSE ParseResult(WorkflowAction("github", pathParts[1], pathParts[2], parts[2]), "")

\* Mutant of ParseActionReference: the prefixes `./` and `../` are not
\* looked for.
ParseActionReference_NoLocalCheck(uses) ==
    IF uses = EmptyString
    THEN ParseResult(WorkflowAction("unknown", EmptyString, EmptyString, EmptyString),
                     "empty action reference")
    ELSE IF HasPrefix(uses, <<"docker", ":", "/", "/">>)
    THEN LET fullImage == SubSeq(uses, 5, Len(uses))
             parts == SplitN2(fullImage, ":")
         IN  ParseResult(WorkflowAction("docker", EmptyString, parts[1],
                                        IF Len(parts) > 1 THEN parts[2] ELSE <<"latest">>), "")
    ELSE
    LET parts == SplitN2(uses, "@")
        repoPath == parts[1]
        pathParts == SplitN2(repoPath, "/")
    IN  IF Len(parts) <= 1
        THEN ParseResult(WorkflowAction("github", EmptyString, EmptyString, EmptyString),
                         "missing explicit @ref")
        ELSE IF Len(pathParts) # 2
        THEN ParseResult(WorkflowAction("github", EmptyString, EmptyString, parts[2]),
                         "invalid GitHub action format")
        ELSE IF pathParts[1] = EmptyString \/ pathParts[2] = EmptyString
                \/ parts[2] = EmptyString
        THEN ParseResult(WorkflowAction("github", pathParts[1], pathParts[2], parts[2]),
                         "incomplete GitHub action reference")
        ELSE ParseResult(WorkflowAction("github", pathParts[1], pathParts[2], parts[2]), "")

ParseActionReference(uses) ==
    IF uses = EmptyString
    THEN ParseResult(WorkflowAction("unknown", EmptyString, EmptyString, EmptyString),
                     "empty action reference")
    ELSE IF HasPrefix(uses, <<".", "/">>) \/ HasPrefix(uses, <<".", ".", "/">>)
    THEN ParseResult(WorkflowAction("local", EmptyString, uses, EmptyString), "")
    ELSE IF HasPrefix(uses, <<"docker", ":", "/", "/">>)
    THEN LET fullImage == SubSeq(uses, 5, Len(uses))
             parts == SplitN2(fullImage, ":")
         IN  ParseResult(WorkflowAction("docker", EmptyString, parts[1],
                                        IF Len(parts) > 1 THEN parts[2] ELSE <<"latest">>), "")
    ELSE
    LET parts == SplitN2(uses, "@")
        repoPath == parts[1]
        pathParts == SplitN2(repoPath, "/")
    IN  IF Len(parts) <= 1
        THEN ParseResult(WorkflowAction("github", EmptyString, EmptyString, EmptyString),
                         "missing explicit @ref")
        ELSE IF Len(pathParts) # 2
        THEN ParseResult(WorkflowAction("github", EmptyString, EmptyString, parts[2]),
                         "invalid GitHub action format")
        ELSE IF pathParts[1] = EmptyString \/ pathParts[2] = EmptyString
                \/ parts[2] = EmptyString
        THEN ParseResult(WorkflowAction("github", pathParts[1], pathParts[2], parts[2]),
                         "incomplete GitHub action reference")
        ELSE ParseResult(WorkflowAction("github", pathParts[1], pathParts[2], parts[2]), "")

(***************************************************************************)
(* cmd: the handlers of one `uses:` value.  updates is Go's map[int]string *)
(* (a function from line numbers to replacement values), updatesMade the   *)
(* counter behind the pointer; a handler returns both, the remote calls it *)
(* issued and a word saying why it ended (every handler returns nil).      *)
(***************************************************************************)
HandlerResult(updates, updatesMade, calls, outcome) ==
    [updates |-> updates, updatesMade |-> updatesMade, calls |-> calls, outcome |-> outcome]

\* fmt.Sprintf("%s@%s #%s", fullPathForUses, commitSHA, ref)
FormatUses(fullPathForUses, commitSHA, ref) ==
    fullPathForUses \o <<"@">> \o commitSHA \o <<SP, "#">> \o ref

\* Repositories.Get: [st, hasBranch, branch]
RepoInfo(st, hasBranch, branch) == [st |-> st, hasBranch |-> hasBranch, branch |-> branch]
GetRepository(rem, owner, repo) ==
    IF InRepo(owner, repo) THEN rem.repoInfo
    ELSE RepoInfo(rem.elsewhere, FALSE, EmptyString)

WorkflowRef(branchName, originalRefForComment, err, calls) ==
    [branchName |-> branchName, originalRefForComment |-> originalRefForComment,
     err |-> err, calls |-> calls]

resolveWorkflowRef(rem, owner, repoNameForAPI, currentRef) ==
    IF currentRef # EmptyString
    THEN WorkflowRef(currentRef, currentRef, "", <<>>)
    ELSE LET repoInfo == GetRepository(rem, owner, repoNameForAPI)
             calls == <<Call("Repositories.Get", owner, repoNameForAPI, EmptyString)>>
         IN  IF repoInfo.st # "ok"
             THEN WorkflowRef(EmptyString, EmptyString, "error getting repository info", calls)
             ELSE IF ~repoInfo.hasBranch \/ repoInfo.branch = EmptyString
             THEN WorkflowRef(EmptyString, EmptyString, "could not determine default branch",
                              calls)
             ELSE WorkflowRef(repoInfo.branch, repoInfo.branch, "", calls)

\* Update mode, after GetLatestActionRef answered latest: the update is
\* scheduled unless the lookup failed or the reference is that very SHA.
ScheduleLatest(latest, fullPathForUses, ref, isSHA, lineNum, updates, updatesMade) ==
    IF latest.err # "" \/ latest.sha = EmptyString \/ latest.ref = EmptyString
    THEN HandlerResult(updates, updatesMade, latest.calls, "latest not found")
    ELSE IF isSHA /\ ref = latest.sha
    THEN HandlerResult(updates, updatesMade, latest.calls, "up to date")
    ELSE HandlerResult((lineNum :> FormatUses(fullPathForUses, latest.sha, latest.ref))
                           @@ updates,
                       updatesMade + 1, latest.calls, "updated")

\* Pin mode, after ResolveRefToSHA answered r: the update is scheduled
\* unless the resolution failed.  before holds the remote calls issued so far.
SchedulePin(r, before, fullPathForUses, refForComment, lineNum, updates, updatesMade) ==
    IF r.err # NoError \/ r.sha = EmptyString
    THEN HandlerResult(updates, updatesMade, before \o r.calls, "not resolved")
    ELSE HandlerResult((lineNum :> FormatUses(fullPathForUses, r.sha, refForComment))
                           @@ updates,
                       updatesMade + 1, before \o r.calls, "pinned")

\* Pin mode of handleWorkflowReference, after resolveWorkflowRef answered w.
PinWorkflow(rem, w, owner, repoNameForAPI, fullPathForUses, lineNum, updates, updatesMade) ==
    IF w.err # ""
    THEN HandlerResult(updates, updatesMade, w.calls, "no branch")
    ELSE SchedulePin(ResolveRefToSHA(rem, TRUE, owner, repoNameForAPI, w.branchName),
                     w.calls, fullPathForUses, w.originalRefForComment, lineNum,
                     updates, updatesMade)

handleWorkflowReference(rem, update, action, lineNum, updates, updatesMade, isSHA) ==
    LET owner == action.Name
        repoField == action.Repo
        ref == action.Ref
        repoNameForAPI == SplitN2(repoField, "/")[1]
        fullPathForUses == owner \o <<"/">> \o repoField
    IN  IF repoNameForAPI = EmptyString
        THEN HandlerResult(updates, updatesMade, <<>>, "no repository name")
        ELSE IF update
        THEN ScheduleLatest(GetLatestActionRef(rem, owner, repoNameForAPI),
                            fullPathForUses, ref, isSHA, lineNum, updates, updatesMade)
        ELSE IF isSHA
        THEN HandlerResult(updates, updatesMade, <<>>, "already pinned")
        ELSE PinWorkflow(rem, resolveWorkflowRef(rem, owner, repoNameForAPI, ref),
                         owner, repoNameForAPI, fullPathForUses, lineNum, updates,
                         updatesMade)

\* Mutant of handleActionReference: the whole repository path, subpath
\* included, is the repository of the remote lookups.
handleActionReference_FullPathLookup(rem, update, action, lineNum, updates, updatesMade, isSHA) ==
    LET owner == action.Name
        repoName == action.Repo
        ref == action.Ref
        fullPathForUses == owner \o <<"/">> \o repoName
    IN  IF update
        THEN ScheduleLatest(GetLatestActionRef(rem, owner, repoName),
                            fullPathForUses, ref, isSHA, lineNum, updates, updatesMade)
        ELSE IF isSHA
        THEN HandlerResult(updates, updatesMade, <<>>, "already pinned")
        ELSE SchedulePin(ResolveRefToSHA(rem, TRUE, owner, repoName, ref), <<>>,
                         fullPathForUses, ref, lineNum, updates, updatesMade)

\* Mutant of handleActionReference: a reference that is already a SHA is
\* resolved and pinned again in pin mode.
handleActionReference_RepinsSha(rem, update, action, lineNum, updates, updatesMade, isSHA) ==
    LET owner == action.Name
        repoName == action.Repo
        ref == action.Ref
        repoNameForAPI == SplitN2(repoName, "/")[1]
        fullPathForUses == owner \o <<"/">> \o repoName
    IN  IF update
        THEN ScheduleLatest(GetLatestActionRef(rem, owner, repoNameForAPI),
                            fullPathForUses, ref, isSHA, lineNum, updates, updatesMade)
        ELSE SchedulePin(ResolveRefToSHA(rem, TRUE, owner, repoNameForAPI, ref), <<>>,
                         fullPathForUses, ref, lineNum, updates, updatesMade)

\* Mutant of handleActionReference: update mode resolves the current
\* reference instead of discovering the latest one.
handleActionReference_UpdateResolvesCurrent(rem, update, action, lineNum, updates, updatesMade, isSHA) ==
    LET owner == action.Name
        repoName == action.Repo
        ref == action.Ref
        repoNameForAPI == SplitN2(repoName, "/")[1]
        fullPathForUses == owner \o <<"/">> \o repoName
    IN  IF isSHA
        THEN HandlerResult(updates, updatesMade, <<>>, "already pinned")
        ELSE SchedulePin(ResolveRefToSHA(rem, TRUE, owner, repoNameForAPI, ref), <<>>,
                         fullPathForUses, ref, lineNum, updates, updatesMade)

handleActionReference(rem, update, action, lineNum, updates, updatesMade, isSHA) ==
    LET owner == action.Name
        repoName == action.Repo
        ref == action.Ref
        repoNameForAPI == SplitN2(repoName, "/")[1]
        fullPathForUses == owner \o <<"/">> \o repoName
    IN  IF repoNameForAPI = EmptyString
        THEN HandlerResult(updates, updatesMade, <<>>, "no repository name")
        ELSE IF update
        THEN ScheduleLatest(GetLatestActionRef(rem, owner, repoNameForAPI),
                            fullPathForUses, ref, isSHA, lineNum, updates, updatesMade)
        ELSE IF isSHA
        THEN HandlerResult(updates, updatesMade, <<>>, "already pinned")
        ELSE SchedulePin(ResolveRefToSHA(rem, TRUE, owner, repoNameForAPI, ref), <<>>,
                         fullPathForUses, ref, lineNum, updates, updatesMade)

\* Mutant of handleUsesValue: the error of ParseActionReference is not
\* looked at.
handleUsesValue_IgnoresParseError(rem, update, valueNode, updates, updatesMade) ==
    LET usesValue == valueNode.value
        lineNum == valueNode.line
        p == ParseActionReference(usesValue)
        action == p.action
        isSHA == StrLen(action.Ref) = SHALength /\ IsHexString(action.Ref)
        isWorkflow == ContainsYamlSuffix(action.Repo)
    IN  IF lineNum \in DOMAIN updates
        THEN HandlerResult(updates, updatesMade, <<>>, "line already scheduled")
        ELSE IF action.Type # "github" \/ action.Name = EmptyString
                \/ action.Repo = EmptyString
        THEN HandlerResult(updates, updatesMade, <<>>, "not a github reference")
        ELSE IF isWorkflow
        THEN handleWorkflowReference(rem, update, action, lineNum, updates, updatesMade, isSHA)
        ELSE handleActionReference(rem, update, action, lineNum, updates, updatesMade, isSHA)
\* Mutant of handleUsesValue: a line that has an edit already is handled like
\* any other.
handleUsesValue_Overwrites(rem, update, valueNode, updates, updatesMade) ==
    LET usesValue == valueNode.value
        lineNum == valueNode.line
        p == ParseActionReference(usesValue)
        action == p.action
        isSHA == StrLen(action.Ref) = SHALength /\ IsHexString(action.Ref)
        isWorkflow == ContainsYamlSuffix(action.Repo)
    IN  IF p.err # ""
        THEN HandlerResult(updates, updatesMade, <<>>, "parse error")
        ELSE IF action.Type # "github" \/ action.Name = EmptyString
                \/ action.Repo = EmptyString
        THEN HandlerResult(updates, updatesMade, <<>>, "not a github reference")
        ELSE IF isWorkflow
        THEN handleWorkflowReference(rem, update, action, lineNum, updates, updatesMade, isSHA)
        ELSE handleActionReference(rem, update, action, lineNum, updates, updatesMade, isSHA)
handleUsesValue(rem, update, valueNode, updates, updatesMade) ==
    LET usesValue == valueNode.value
        lineNum == valueNode.line
        p == ParseActionReference(usesValue)
        action == p.action
        isSHA == StrLen(action.Ref) = SHALength /\ IsHexString(action.Ref)
        isWorkflow == ContainsYamlSuffix(action.Repo)
    IN  IF lineNum \in DOMAIN updates
        THEN HandlerResult(updates, updatesMade, <<>>, "line already scheduled")
        ELSE IF p.err # ""
        THEN HandlerResult(updates, updatesMade, <<>>, "parse error")
        ELSE IF action.Type # "github" \/ action.Name = EmptyString
                \/ action.Repo = EmptyString
        THEN HandlerResult(updates, updatesMade, <<>>, "not a github reference")
        ELSE IF isWorkflow
        THEN handleWorkflowReference(rem, update, action, lineNum, updates, updatesMade, isSHA)
        ELSE handleActionReference(rem, update, action, lineNum, updates, updatesMade, isSHA)

(***************************************************************************)
(* parser: ParseWorkflowYAML.  yaml.Unmarshal is modelled on the block and *)
(* flow forms the workflow texts below use: a `steps:` header, items       *)
(* `- key: value` and `- {key: value}`, and pairs `key: value` that belong *)
(* to the item above them or, with no item above, to a mapping under the   *)
(* header.  A node is [kind, value, line, content], line being the line of *)
(* the node's first character as yaml.v3 records it.                       *)
(***************************************************************************)
Node(kind, value, line, content) ==
    [kind |-> kind, value |-> value, line |-> line, content |-> content]
ScalarNode(value, line) == Node("Scalar", value, line, <<>>)

\* The text of a line as the YAML scanner reads it: the carriage return, a
\* comment and the blanks before it are no part of the line's tokens.
StripComment(line) ==
    IF \E i \in 1..Len(line) : line[i] = "#" /\ (i = 1 \/ line[i - 1] \in {SP, TAB})
    THEN LET i == CHOOSE k \in 1..Len(line) :
                      /\ line[k] = "#" /\ (k = 1 \/ line[k - 1] \in {SP, TAB})
                      /\ \A j \in 1..(k - 1) :
                            ~(line[j] = "#" /\ (j = 1 \/ line[j - 1] \in {SP, TAB}))
         IN  SubSeq(line, 1, i - 1)
    ELSE line

YamlText(line) == TrimRight(StripComment(TrimRight(line, {CR})), {SP, TAB})

KeyAtoms == {"uses:", "name:"}
KeyName(atom) == IF atom = "uses:" THEN <<"uses">> ELSE <<"name">>

IsPair(p) == Len(p) >= 1 /\ p[1] \in KeyAtoms /\ (Len(p) = 1 \/ p[2] = SP)
PairNodes(p, line) ==
    <<ScalarNode(KeyName(p[1]), line), ScalarNode(TrimLeft(SubSeq(p, 2, Len(p)), {SP}), line)>>

\* The form of a line and the key and value nodes it holds; body is the
\* line's text after its indentation.
LineForm(body, indent, line) ==
    CASE body = <<>> -> [form |-> "blank", nodes |-> <<>>]
      [] body = <<"steps:">> /\ indent = 0 -> [form |-> "header", nodes |-> <<>>]
      [] HasPrefix(body, <<"-", SP, "{">>) /\ body[Len(body)] = "}"
            /\ IsPair(SubSeq(body, 4, Len(body) - 1)) ->
            [form |-> "item", nodes |-> PairNodes(SubSeq(body, 4, Len(body) - 1), line)]
      [] HasPrefix(body, <<"-", SP>>) /\ IsPair(SubSeq(body, 3, Len(body))) ->
            [form |-> "item", nodes |-> PairNodes(SubSeq(body, 3, Len(body)), line)]
      [] IsPair(body) /\ indent > 0 -> [form |-> "pair", nodes |-> PairNodes(body, line)]
      [] OTHER -> [form |-> "bad", nodes |-> <<>>]

Indented(t, line) == LineForm(TrimLeft(t, {SP}), Len(t) - Len(TrimLeft(t, {SP})), line)

YamlLine(text, line) == Indented(YamlText(text), line)

\* The parser's state after line i, of form l: the line of the header, the
\* items of the sequence under it or the pairs of the mapping under it.
YamlStep(acc, l, i) ==
    CASE l.form = "blank" -> acc
      [] l.form = "header" ->
            IF acc.header = 0 THEN [acc EXCEPT !.header = i] ELSE [acc EXCEPT !.err = TRUE]
      [] l.form = "item" ->
            IF acc.header # 0 /\ acc.pairs = <<>>
            THEN [acc EXCEPT !.items = Append(@, Node("Mapping", <<>>, i, l.nodes))]
            ELSE [acc EXCEPT !.err = TRUE]
      [] l.form = "pair" ->
            IF acc.header = 0 THEN [acc EXCEPT !.err = TRUE]
            ELSE IF acc.items = <<>> THEN [acc EXCEPT !.pairs = @ \o l.nodes]
            ELSE [acc EXCEPT !.items[Len(acc.items)].content = @ \o l.nodes]
      [] OTHER -> [acc EXCEPT !.err = TRUE]

RECURSIVE YamlFold(_, _, _)
YamlFold(lines, i, acc) ==
    IF i > Len(lines) \/ acc.err THEN acc
    ELSE YamlFold(lines, i + 1, YamlStep(acc, YamlLine(lines[i], i), i))

ParsedYAML(root, err) == [root |-> root, err |-> err]
NilNode == Node("", <<>>, 0, <<>>)

\* The value of the header: a sequence of items, a mapping of pairs, or null.
HeaderValue(acc) ==
    IF acc.items # <<>> THEN Node("Sequence", <<>>, acc.items[1].line, acc.items)
    ELSE IF acc.pairs # <<>> THEN Node("Mapping", <<>>, acc.pairs[1].line, acc.pairs)
    ELSE ScalarNode(EmptyString, acc.header)

\* The document yaml.Unmarshal stores in root, or its error.
Unmarshal(acc) ==
    IF acc.err THEN ParsedYAML(NilNode, "error parsing YAML file")
    ELSE IF acc.header = 0 THEN ParsedYAML(NilNode, "")
    ELSE ParsedYAML(Node("Document", <<>>, acc.header,
                         <<Node("Mapping", <<>>, acc.header,
                                <<ScalarNode(<<"steps">>, acc.header), HeaderValue(acc)>>)>>),
                    "")

ParseWorkflowYAML(data) ==
    IF StrLen(data) = 0 THEN ParsedYAML(NilNode, "")
    ELSE Unmarshal(YamlFold(Split(data, NL), 1,
                            [header |-> 0, items |-> <<>>, pairs |-> <<>>, err |-> FALSE]))

(***************************************************************************)
(* cmd: findUpdatesInNodes.  The traversal calls handleUsesValue on the    *)
(* value nodes of the `uses` keys in document order; UsesNodes is that     *)
(* order.  No handler returns an error, so the traversal never stops       *)
(* early.                                                                  *)
(***************************************************************************)
RECURSIVE UsesNodes(_)
RECURSIVE UsesNodesOfAll(_)
RECURSIVE UsesNodesOfPairs(_)

UsesNodesOfAll(content) ==
    IF content = <<>> THEN <<>>
    ELSE UsesNodes(Head(content)) \o UsesNodesOfAll(Tail(content))

UsesNodesOfPairs(content) ==
    IF Len(content) < 2 THEN <<>>
    ELSE LET keyNode == content[1]
             valueNode == content[2]
             rest == UsesNodesOfPairs(SubSeq(content, 3, Len(content)))
         IN  IF keyNode.kind = "Scalar" /\ keyNode.value = <<"uses">>
                /\ valueNode.kind = "Scalar"
             THEN <<valueNode>> \o rest
             ELSE UsesNodes(valueNode) \o rest

\* Mutant of UsesNodes: an alias is followed to the node it stands for.
UsesNodes_FollowsAlias(node) ==
    CASE node.kind = "Document" -> UsesNodesOfAll(node.content)
      [] node.kind = "Mapping" -> UsesNodesOfPairs(node.content)
      [] node.kind = "Sequence" -> UsesNodesOfAll(node.content)
      [] node.kind = "Alias" -> UsesNodesOfAll(node.content)
      [] OTHER -> <<>>
UsesNodes(node) ==
    CASE node.kind = "Document" -> UsesNodesOfAll(node.content)
      [] node.kind = "Mapping" -> UsesNodesOfPairs(node.content)
      [] node.kind = "Sequence" -> UsesNodesOfAll(node.content)
      [] OTHER -> <<>>

\* findUpdatesInNodes over a whole tree: the handlers applied in order.
RECURSIVE HandleAll(_, _, _, _)
HandleAll(rem, update, nodes, acc) ==
    IF nodes = <<>> THEN acc
    ELSE LET h == handleUsesValue(rem, update, Head(nodes), acc.updates, acc.updatesMade)
         IN  HandleAll(rem, update, Tail(nodes),
                       HandlerResult(h.updates, h.updatesMade, acc.calls \o h.calls, h.outcome))

findUpdatesInNodes(rem, update, node, updates, updatesMade) ==
    HandleAll(rem, update, UsesNodes(node), HandlerResult(updates, updatesMade, <<>>, ""))

(***************************************************************************)
(* cmd: applyUpdatesToLines                                                *)
(***************************************************************************)
RECURSIVE JoinLines(_)
JoinLines(lines) ==
    IF Len(lines) = 1 THEN lines[1]
    ELSE lines[1] \o <<NL>> \o JoinLines(Tail(lines))

\* Mutant of UpdatedLine: the rewritten line starts at column 0, its
\* indentation is not copied.
UpdatedLine_NoIndentation(line, lineNumber, updates) ==
    IF lineNumber \in DOMAIN updates
    THEN LET newUsesValue == updates[lineNumber]
             trimmedLine == TrimSpace(line)
         IN  IF HasPrefix(trimmedLine, <<"-", SP, "uses:">>)
             THEN <<"-", SP, "uses:", SP>> \o newUsesValue
             ELSE IF HasPrefix(trimmedLine, <<"uses:">>)
             THEN <<"uses:", SP>> \o newUsesValue
             ELSE line
    ELSE line
\* Mutant of UpdatedLine: a line with a pending edit is rewritten whatever it
\* begins with.
UpdatedLine_AnyLine(line, lineNumber, updates) ==
    IF lineNumber \in DOMAIN updates
    THEN LET newUsesValue == updates[lineNumber]
             trimmedLine == TrimSpace(line)
             indentation == SubSeq(line, 1, Len(line) - Len(TrimLeft(line, {SP, TAB})))
         IN  IF HasPrefix(trimmedLine, <<"-", SP, "uses:">>)
             THEN indentation \o <<"-", SP, "uses:", SP>> \o newUsesValue
             ELSE indentation \o <<"uses:", SP>> \o newUsesValue
    ELSE line
UpdatedLine(line, lineNumber, updates) ==
    IF lineNumber \in DOMAIN updates
    THEN LET newUsesValue == updates[lineNumber]
             trimmedLine == TrimSpace(line)
             indentation == SubSeq(line, 1, Len(line) - Len(TrimLeft(line, {SP, TAB})))
         IN  IF HasPrefix(trimmedLine, <<"-", SP, "uses:">>)
             THEN indentation \o <<"-", SP, "uses:", SP>> \o newUsesValue
             ELSE IF HasPrefix(trimmedLine, <<"uses:">>)
             THEN indentation \o <<"uses:", SP>> \o newUsesValue
             ELSE line
    ELSE line

\* Mutant of applyUpdatesToLines: a newline is written after every line, the
\* last included.
applyUpdatesToLines_NewlineAfterEach(originalContent, updates) ==
    LET lines == Split(originalContent, NL)
    IN  JoinLines([i \in 1..Len(lines) |-> UpdatedLine(lines[i], i, updates)]) \o <<NL>>

applyUpdatesToLines(originalContent, updates) ==
    LET lines == Split(originalContent, NL)
    IN  JoinLines([i \in 1..Len(lines) |-> UpdatedLine(lines[i], i, updates)])

(***************************************************************************)
(* cmd: UpdateWorkflowActionSHAs on one workflow file, as the steps of its *)
(* execution: the entry (validation, read, parse), one step per `uses`     *)
(* value the traversal reaches, and the exit (rewrite and write-back).     *)
(***************************************************************************)
Returned0(n, err) == [n |-> n, err |-> err]

NoUpdates == <<>>

\* Mutant of Occurrences: the walk ends at the first value that does not
\* parse.
Occurrences_UntilParseError(r) ==
    LET all == IF Len(r.content) > 0 THEN UsesNodes(r.content[1]) ELSE <<>>
        bad == {i \in 1..Len(all) : ParseActionReference(all[i].value).err # ""}
    IN  IF bad = {} THEN all
        ELSE SubSeq(all, 1, CHOOSE i \in bad : \A j \in bad : i <= j)
\* The nodes the traversal of root.Content[0] hands to handleUsesValue.
Occurrences(r) == IF Len(r.content) > 0 THEN UsesNodes(r.content[1]) ELSE <<>>

TraceEntry(node, fresh, h) ==
    [value |-> node.value, line |-> node.line, fresh |-> fresh, calls |-> h.calls,
     outcome |-> h.outcome,
     edited |-> fresh /\ node.line \in DOMAIN h.updates,
     edit |-> IF fresh /\ node.line \in DOMAIN h.updates THEN h.updates[node.line]
              ELSE EmptyString]

\* Entry: ValidateWorkflowFilePath, os.ReadFile, the empty-file test and
\* ParseWorkflowYAML.  io is what the file system answers.
Enter ==
    /\ pc = "call"
    /\ \E io \in {"ok", "invalid path", "read error"}, parsed \in {ParseWorkflowYAML(disk)} :
          /\ fileUpdates' = NoUpdates
          /\ fileUpdatesMade' = 0
          /\ pos' = 1
          /\ IF io # "ok"
             THEN /\ ret' = Returned0(0, io)
                  /\ pc' = "done"
                  /\ fileData' = EmptyString
                  /\ fileRoot' = NilNode
             ELSE /\ fileData' = disk
                  /\ IF StrLen(disk) = 0
                     THEN /\ ret' = Returned0(0, "")
                          /\ pc' = "done"
                          /\ fileRoot' = NilNode
                     ELSE IF parsed.err # ""
                     THEN /\ ret' = Returned0(0, parsed.err)
                          /\ pc' = "done"
                          /\ fileRoot' = NilNode
                     ELSE /\ fileRoot' = parsed.root
                          /\ pc' = "walk"
                          /\ UNCHANGED ret
    /\ UNCHANGED <<remote, Update, disk, remoteCalls, writes, trace, run, prev, rin, rout, rpc>>

\* Mutant of HandleUses: the calls of an occurrence are recorded ahead of
\* those of the occurrences before it.
HandleUses_CallsAhead ==
    /\ pc = "walk"
    /\ pos <= Len(Occurrences(fileRoot))
    /\ \E node \in {Occurrences(fileRoot)[pos]} :
          \E h \in {handleUsesValue(remote, Update, node, fileUpdates, fileUpdatesMade)} :
             /\ fileUpdates' = h.updates
             /\ fileUpdatesMade' = h.updatesMade
             /\ remoteCalls' = h.calls \o remoteCalls
             /\ trace' = Append(trace, TraceEntry(node, node.line \notin DOMAIN fileUpdates, h))
    /\ pos' = pos + 1
    /\ UNCHANGED <<remote, Update, disk, pc, fileData, fileRoot, writes, ret, run, prev,
                   rin, rout, rpc>>

\* One call of handleUsesValue by findUpdatesInNodes.
HandleUses ==
    /\ pc = "walk"
    /\ pos <= Len(Occurrences(fileRoot))
    /\ \E node \in {Occurrences(fileRoot)[pos]} :
          \E h \in {handleUsesValue(remote, Update, node, fileUpdates, fileUpdatesMade)} :
             /\ fileUpdates' = h.updates
             /\ fileUpdatesMade' = h.updatesMade
             /\ remoteCalls' = remoteCalls \o h.calls
             /\ trace' = Append(trace, TraceEntry(node, node.line \notin DOMAIN fileUpdates, h))
    /\ pos' = pos + 1
    /\ UNCHANGED <<remote, Update, disk, pc, fileData, fileRoot, writes, ret, run, prev,
                   rin, rout, rpc>>

\* Mutant of Leave: the file is written back whatever the edit count.
Leave_WritesAlways ==
    /\ pc = "walk"
    /\ pos > Len(Occurrences(fileRoot))
    /\ disk' = applyUpdatesToLines(fileData, fileUpdates)
    /\ writes' = writes + 1
    /\ ret' = Returned0(fileUpdatesMade, "")
    /\ pc' = "done"
    /\ UNCHANGED <<remote, Update, fileData, fileRoot, pos, fileUpdates, fileUpdatesMade, remoteCalls, trace, run,
                   prev, rin, rout, rpc>>
\* Exit: applyUpdatesToLines and os.WriteFile when updatesMade > 0; written
\* is what the file system answers to the write.
Leave ==
    /\ pc = "walk"
    /\ pos > Len(Occurrences(fileRoot))
    /\ \E written \in (IF fileUpdatesMade > 0 THEN BOOLEAN ELSE {TRUE}) :
          IF fileUpdatesMade > 0
          THEN IF written
               THEN /\ disk' = applyUpdatesToLines(fileData, fileUpdates)
                    /\ writes' = writes + 1
                    /\ ret' = Returned0(fileUpdatesMade, "")
               ELSE /\ ret' = Returned0(fileUpdatesMade, "error writing updated file")
                    /\ UNCHANGED <<disk, writes>>
          ELSE /\ ret' = Returned0(fileUpdatesMade, "")
               /\ UNCHANGED <<disk, writes>>
    /\ pc' = "done"
    /\ UNCHANGED <<remote, Update, fileData, fileRoot, pos, fileUpdates, fileUpdatesMade, remoteCalls, trace, run,
                   prev, rin, rout, rpc>>

\* The command is run once more on the file as the first run left it, the
\* remote and the mode being the same.
Rerun ==
    /\ pc = "done"
    /\ run = "first"
    /\ run' = "second"
    /\ prev' = [ret |-> ret, data |-> fileData, writes |-> writes, ran |-> TRUE]
    /\ pc' = "call"
    /\ remoteCalls' = <<>>
    /\ writes' = 0
    /\ trace' = <<>>
    /\ UNCHANGED <<remote, Update, disk, fileData, fileRoot, pos, fileUpdates, fileUpdatesMade, ret,
                   rin, rout, rpc>>

(***************************************************************************)
(* Spec: the command on one workflow file, in pin or update mode, run and  *)
(* then run again, against a remote that does not change.                  *)
(***************************************************************************)
MaxLines == 2

LineTag == <<SP, SP, "-", SP, "uses:", SP, "o", "/", "r", "/", "sub", "@", "v4">>
LineWorkflow ==
    <<SP, SP, SP, SP, "uses:", SP, "o", "/", "r", "/", ".", "github", "/", "workflows", "/",
      "wf", ".", "yml", "@", "main">>
LinePinned == <<SP, SP, "-", SP, "uses:", SP, "o", "/", "r", "@", Sha1>>
LineWorkflowPinned ==
    <<SP, SP, SP, SP, "uses:", SP, "o", "/", "r", "/", ".", "github", "/", "workflows", "/",
      "wf", ".", "yml", "@", Sha3>>
LineFlow == <<SP, SP, "-", SP, "{", "uses:", SP, "o", "/", "r", "@", "v4", "}">>
LineLocal == <<SP, SP, "-", SP, "uses:", SP, ".", "/", "local">>
LineName == <<SP, SP, "-", SP, "name:", SP, "x">>
LineNoRef == <<SP, SP, "-", SP, "uses:", SP, "o", "/", "r">>
LineOther == <<SP, SP, "-", SP, "uses:", SP, "o", "/", "q", "@", "v4">>

LineSet ==
    {LineTag, LineWorkflow, LinePinned, LineWorkflowPinned, LineFlow, LineLocal, LineName,
     LineNoRef, LineOther}

\* A workflow text: the header and the lines, each ended by a newline.
RECURSIVE TextOf(_)
TextOf(lines) ==
    IF lines = <<>> THEN <<>> ELSE Head(lines) \o <<NL>> \o TextOf(Tail(lines))

Files ==
    {EmptyString} \cup
    {TextOf(<<<<"steps:">>>> \o ls) : ls \in UNION {[1..n -> LineSet] : n \in 0..MaxLines}}

\* The remotes: tag v4 is lightweight, annotated or missing; the latest
\* version comes from the release, from the tag list, from neither, or the
\* lookups fail, and then every call about another repository fails too.
RemoteWith(tagKind, latest) ==
    [commits |-> [s \in {<<Sha1>>, <<Sha2>>, <<Sha3>>} |-> CommitExists],
     tags |-> (<<"v5">> :> Object("commit", Sha2)) @@
              (IF tagKind = "lightweight" THEN <<"v4">> :> Object("commit", Sha1)
               ELSE IF tagKind = "annotated" THEN <<"v4">> :> Object("tag", TagObj1)
               ELSE <<"v5">> :> Object("commit", Sha2)),
     tagObjs |-> (<<TagObj1>> :> Object("commit", Sha1)),
     heads |-> (<<"main">> :> Object("commit", Sha3)),
     release |-> IF latest = "release" THEN Release("ok", TRUE, <<"v4">>)
                 ELSE IF latest = "error" THEN Release("err", FALSE, EmptyString)
                 ELSE NoRelease,
     tagList |-> IF latest \in {"release", "tags"}
                 THEN TagList("ok", <<TagEntry(<<"v5">>, Sha2), TagEntry(<<"v4">>, Sha1)>>)
                 ELSE IF latest = "error" THEN TagList("err", <<>>)
                 ELSE TagList("ok", <<>>),
     repoInfo |-> RepoInfo("ok", TRUE, <<"main">>),
     elsewhere |-> IF latest = "error" THEN "err" ELSE "404"]

Remotes ==
    {RemoteWith(k, l) : k \in {"lightweight", "annotated", "missing"},
                        l \in {"release", "tags", "none", "error"}}

NoRun == [ret |-> Returned0(0, ""), data |-> EmptyString, writes |-> 0, ran |-> FALSE]

\* The variables of the resolver's own specification, at rest.
ResolverIdle ==
    /\ rin = [client |-> TRUE, owner |-> EmptyString, repo |-> EmptyString,
              ref |-> EmptyString]
    /\ rout = ResolveResult(EmptyString, NoError, <<>>, <<>>)
    /\ rpc = "idle"

\* The variables of the command, before it is called.
WalkerIdle ==
    /\ fileData = EmptyString
    /\ fileRoot = NilNode
    /\ pos = 1
    /\ fileUpdates = NoUpdates
    /\ fileUpdatesMade = 0
    /\ ret = Returned0(0, "")
    /\ remoteCalls = <<>>
    /\ writes = 0
    /\ trace = <<>>
    /\ run = "first"
    /\ prev = NoRun

(***************************************************************************)
(* SpecResolve: one call of ResolveRefToSHA, for every argument and every  *)
(* answer the remote can give about the reference.                         *)
(***************************************************************************)
RefInputs == {<<"v4">>, <<Sha1>>, <<ShortHex>>, <<NonHex40>>, EmptyString}

CommitAnswers == {NotFound, Failure, CommitExists}
TagRefAnswers ==
    {NotFound, Failure, NilObject, Object("commit", Sha2), Object("tag", TagObj1),
     Object("tree", Tree1)}
TagObjAnswers ==
    {NotFound, Failure, NilObject, Object("commit", Sha3), Object("tag", TagObj2),
     Object("tree", Tree1)}
BranchAnswers ==
    {NotFound, Failure, NilObject, Object("commit", Sha1), Object("commit", Sha3),
     Object("tag", TagObj1)}

\* A remote that gives the answers c, t, o, b about ref and its tag object.
RemoteAbout(ref, c, t, o, b) ==
    [commits |-> (ref :> c), tags |-> (ref :> t), tagObjs |-> (<<TagObj1>> :> o),
     heads |-> (ref :> b), release |-> NoRelease, tagList |-> TagList("ok", <<>>),
     repoInfo |-> RepoInfo("ok", TRUE, <<"main">>), elsewhere |-> "404"]

ResolveInit ==
    /\ rin \in [client : BOOLEAN, owner : {RepoOwner, EmptyString},
                repo : {RepoName, <<"other">>, EmptyString}, ref : RefInputs]
    /\ \E c \in CommitAnswers, t \in TagRefAnswers, o \in TagObjAnswers, b \in BranchAnswers :
          remote = RemoteAbout(rin.ref, c, t, o, b)
    /\ rout = ResolveResult(EmptyString, NoError, <<>>, <<>>)
    /\ rpc = "call"
    /\ Update = FALSE
    /\ disk = EmptyString
    /\ pc = "idle"
    /\ WalkerIdle

ResolveCall ==
    /\ rpc = "call"
    /\ rout' = ResolveRefToSHA(remote, rin.client, rin.owner, rin.repo, rin.ref)
    /\ rpc' = "ret"
    /\ UNCHANGED <<remote, rin, Update, disk, pc, fileData, fileRoot, pos, fileUpdates, fileUpdatesMade, ret,
                   remoteCalls, writes, trace, run, prev>>

vars ==
    <<remote, rin, rout, rpc, Update, disk, pc, fileData, fileRoot, pos, fileUpdates, fileUpdatesMade, ret,
      remoteCalls, writes, trace, run, prev>>

SpecResolve == ResolveInit /\ [][ResolveCall]_vars

Init ==
    /\ remote \in Remotes
    /\ Update \in BOOLEAN
    /\ disk \in Files
    /\ pc = "call"
    /\ WalkerIdle
    /\ ResolverIdle

Next == Enter \/ HandleUses \/ Leave \/ Rerun

Spec == Init /\ [][Next]_vars

(***************************************************************************)
(* SpecRewrite: applyUpdatesToLines alone, on every short text and on the  *)
(* empty and the one-entry edit maps.                                      *)
(***************************************************************************)
MaxTextLen == 4

TextAtoms == {NL, CR, SP, TAB, "-", "uses:", "x"}
Texts == UNION {[1..n -> TextAtoms] : n \in 0..MaxTextLen}
EditMaps ==
    {NoUpdates, 1 :> <<"o", "/", "r", "@", Sha1, SP, "#", "v4">>,
     2 :> <<"o", "/", "r", "@", Sha2, SP, "#", "v5">>}

RewriteInit ==
    /\ disk \in Texts
    /\ fileUpdates \in EditMaps
    /\ pc = "rewrite"
    /\ remote = RemoteWith("lightweight", "release")
    /\ Update = FALSE
    /\ fileData = EmptyString
    /\ fileRoot = NilNode
    /\ pos = 1
    /\ fileUpdatesMade = 0
    /\ ret = Returned0(0, "")
    /\ remoteCalls = <<>>
    /\ writes = 0
    /\ trace = <<>>
    /\ run = "first"
    /\ prev = NoRun
    /\ ResolverIdle

\* updatedContent, err := applyUpdatesToLines(string(data), updates)
Rewrite ==
    /\ pc = "rewrite"
    /\ fileData' = applyUpdatesToLines(disk, fileUpdates)
    /\ pc' = "rewritten"
    /\ UNCHANGED <<remote, Update, disk, fileRoot, pos, fileUpdates, fileUpdatesMade, ret, remoteCalls, writes,
                   trace, run, prev, rin, rout, rpc>>

SpecRewrite == RewriteInit /\ [][Rewrite]_vars

(***************************************************************************)
(* SpecUses: one `uses` value, classified by ParseActionReference and      *)
(* handled by handleUsesValue with an empty edit map, in both modes, for   *)
(* every short string over the characters the classifier looks at and for  *)
(* container references.                                                   *)
(***************************************************************************)
MaxUsesLen == 5
MaxImageLen == 3

UsesAtoms == {"/", "@", ".", "o", "r", "v4"}
ImageAtoms == {":", "@", "a"}
DockerPrefix == <<"docker", ":", "/", "/">>
\* A reusable workflow of o/r, and the ways its reference is written: none,
\* an empty one, a branch, a 40-hex SHA.
WorkflowPath == <<"o", "/", "r", "/", "wf", ".", "yml">>
WorkflowInputs ==
    {WorkflowPath \o t : t \in {<<>>, <<"@">>, <<"@", "main">>, <<"@", Sha3>>}}
UsesInputs ==
    UNION {[1..n -> UsesAtoms] : n \in 0..MaxUsesLen}
    \cup {DockerPrefix \o t : t \in UNION {[1..n -> ImageAtoms] : n \in 0..MaxImageLen}}
    \cup WorkflowInputs

UsesLineNumber == 2

UsesInit ==
    /\ rin \in [uses : UsesInputs, line : {UsesLineNumber}]
    /\ Update \in BOOLEAN
    /\ remote = RemoteWith("lightweight", "release")
    /\ rout = [parsed |-> ParseResult(WorkflowAction("unknown", EmptyString, EmptyString,
                                                     EmptyString), ""),
               handled |-> HandlerResult(NoUpdates, 0, <<>>, "")]
    /\ rpc = "uses"
    /\ disk = EmptyString
    /\ pc = "idle"
    /\ WalkerIdle

\* action, err := parser.ParseActionReference(usesValue), inside
\* handleUsesValue(ctx, client, valueNode, updates, updatesMade).
UsesCall ==
    /\ rpc = "uses"
    /\ rout' = [parsed |-> ParseActionReference(rin.uses),
                handled |-> handleUsesValue(remote, Update, ScalarNode(rin.uses, rin.line),
                                            NoUpdates, 0)]
    /\ rpc' = "handled"
    /\ UNCHANGED <<remote, rin, Update, disk, pc, fileData, fileRoot, pos, fileUpdates,
                   fileUpdatesMade, ret, remoteCalls, writes, trace, run, prev>>

SpecUses == UsesInit /\ [][UsesCall]_vars

(***************************************************************************)
(* SpecLatest: one call of GetLatestActionRef, for every answer about the  *)
(* latest release, every way its tag resolves and every short tag list.    *)
(***************************************************************************)
MaxTags == 2

\* The entries of a tag list: github.RepositoryTag with its Name, Commit and
\* Commit.SHA present or nil; a present name may be the empty string.
TagEntries ==
    {TagEntry(<<"v5">>, Sha2), TagEntry(<<"v4">>, Sha1),
     [hasName |-> FALSE, name |-> EmptyString, hasSha |-> TRUE, sha |-> <<Sha3>>],
     [hasName |-> TRUE, name |-> <<"v3">>, hasSha |-> FALSE, sha |-> EmptyString],
     [hasName |-> TRUE, name |-> EmptyString, hasSha |-> TRUE, sha |-> <<Sha3>>]}
TagListAnswers ==
    {TagList("ok", l) : l \in UNION {[1..n -> TagEntries] : n \in 0..MaxTags}}
    \cup {TagList("err", <<>>), TagList("404", <<>>)}
ReleaseAnswers ==
    {Release("ok", TRUE, <<"v4">>), Release("ok", TRUE, EmptyString),
     Release("ok", FALSE, EmptyString), NoRelease, Release("err", FALSE, EmptyString)}
ReleaseTagAnswers == {Object("commit", Sha1), Object("tag", TagObj1), NotFound, Failure}

\* The remote that gives these answers about o/r.
RemoteLatest(rel, tag, list) ==
    [RemoteWith("missing", "none") EXCEPT
        !.release = rel, !.tagList = list,
        !.tags = (<<"v5">> :> Object("commit", Sha2)) @@ (<<"v4">> :> tag)]

LatestInit ==
    /\ rin \in [owner : {RepoOwner}, repo : {RepoName, <<"q">>}]
    /\ \E rel \in ReleaseAnswers, tag \in ReleaseTagAnswers, list \in TagListAnswers :
          remote = RemoteLatest(rel, tag, list)
    /\ rout = LatestResult(EmptyString, EmptyString, "", <<>>)
    /\ rpc = "latest"
    /\ Update = TRUE
    /\ disk = EmptyString
    /\ pc = "idle"
    /\ WalkerIdle

\* latestRef, commitSHA, err := githubclient.GetLatestActionRef(ctx, client, owner, repo)
LatestCall ==
    /\ rpc = "latest"
    /\ rout' = GetLatestActionRef(remote, rin.owner, rin.repo)
    /\ rpc' = "returned"
    /\ UNCHANGED <<remote, rin, Update, disk, pc, fileData, fileRoot, pos, fileUpdates,
                   fileUpdatesMade, ret, remoteCalls, writes, trace, run, prev>>

SpecLatest == LatestInit /\ [][LatestCall]_vars

(***************************************************************************)
(* SpecClear: the clear command.  rin holds the force flag, whether        *)
(* os.UserCacheDir answers, and the cache directory as the command found   *)
(* it; rout holds the directory as it is now (exists, number of entries),  *)
(* what the two os.Stat calls answered and the error returned ("" is nil). *)
(***************************************************************************)
MaxEntries == 4

CacheDir(exists, entries) == [exists |-> exists, entries |-> entries]
CacheDirs == {CacheDir(FALSE, 0)} \cup {CacheDir(TRUE, n) : n \in 0..MaxEntries}

\* What os.Stat can answer about a directory: the truth, or an error other
\* than not-exist (permissions, a path component that is no directory).
StatAnswers(dir) == {IF dir.exists THEN "ok" ELSE "not exist", "error"}

ClearResult(dir, stat, verify, err) ==
    [dir |-> dir, stat |-> stat, verify |-> verify, err |-> err]

ClearInit ==
    /\ rin \in [force : BOOLEAN, userCacheDir : BOOLEAN, dir : CacheDirs]
    /\ rout = ClearResult(rin.dir, "", "", "")
    /\ rpc = "UserCacheDir"
    /\ remote = RemoteWith("lightweight", "release")
    /\ Update = FALSE
    /\ disk = EmptyString
    /\ pc = "idle"
    /\ WalkerIdle

ClearUnchanged ==
    UNCHANGED <<remote, rin, Update, disk, pc, fileData, fileRoot, pos, fileUpdates,
                fileUpdatesMade, ret, remoteCalls, writes, trace, run, prev>>

\* userCacheDir, err := os.UserCacheDir()
ClearUserCacheDir ==
    /\ rpc = "UserCacheDir"
    /\ IF rin.userCacheDir
       THEN rpc' = "Stat" /\ UNCHANGED rout
       ELSE /\ rout' = [rout EXCEPT !.err = "failed to get user cache directory"]
            /\ rpc' = "returned"
    /\ ClearUnchanged

\* Mutant of ClearStat: the force flag is not looked at.
ClearStat_NoForceCheck ==
    /\ rpc = "Stat"
    /\ \E st \in StatAnswers(rout.dir) :
          IF st = "not exist"
          THEN rout' = [rout EXCEPT !.stat = st] /\ rpc' = "returned"
          ELSE IF st = "error"
          THEN /\ rout' = [rout EXCEPT !.stat = st,
                                       !.err = "failed to check status of cache directory"]
               /\ rpc' = "returned"
          ELSE rout' = [rout EXCEPT !.stat = st] /\ rpc' = "RemoveAll"
    /\ ClearUnchanged

\* _, err = os.Stat(cachePath), and the test of the force flag.
ClearStat ==
    /\ rpc = "Stat"
    /\ \E st \in StatAnswers(rout.dir) :
          IF st = "not exist"
          THEN rout' = [rout EXCEPT !.stat = st] /\ rpc' = "returned"
          ELSE IF st = "error"
          THEN /\ rout' = [rout EXCEPT !.stat = st,
                                       !.err = "failed to check status of cache directory"]
               /\ rpc' = "returned"
          ELSE IF ~rin.force
          THEN /\ rout' = [rout EXCEPT !.stat = st, !.err = "cache directory exists"]
               /\ rpc' = "returned"
          ELSE rout' = [rout EXCEPT !.stat = st] /\ rpc' = "RemoveAll"
    /\ ClearUnchanged

\* err = os.RemoveAll(cachePath): the directory is removed; or the removal
\* fails, having removed some of the entries or none; or it returns nil and
\* the directory is there again.
ClearRemoveAll ==
    /\ rpc = "RemoveAll"
    /\ \/ /\ rout' = [rout EXCEPT !.dir = CacheDir(FALSE, 0)]
          /\ rpc' = "Verify"
       \/ \E left \in 0..rout.dir.entries :
             /\ rout' = [rout EXCEPT !.dir = CacheDir(TRUE, left),
                                     !.err = "failed removing cache directory"]
             /\ rpc' = "returned"
       \/ /\ rout' = [rout EXCEPT !.dir = CacheDir(TRUE, 0)]
          /\ rpc' = "Verify"
    /\ ClearUnchanged

\* _, err = os.Stat(cachePath) after the removal.
ClearVerify ==
    /\ rpc = "Verify"
    /\ \E st \in StatAnswers(rout.dir) :
          /\ rout' = [rout EXCEPT !.verify = st, !.err =
                         IF st = "not exist" THEN ""
                         ELSE IF st = "error" THEN "failed to verify removal status"
                         ELSE "it still exists"]
          /\ rpc' = "returned"
    /\ ClearUnchanged

ClearNext == ClearUserCacheDir \/ ClearStat \/ ClearRemoveAll \/ ClearVerify

SpecClear == ClearInit /\ [][ClearNext]_vars

(***************************************************************************)
(* SpecHandler: one call of handleWorkflowReference or                     *)
(* handleActionReference on a classified reference, empty refs included,   *)
(* for every answer of the repository-info lookup and of the other remote  *)
(* calls, with the error the handler returns and the error the walk makes  *)
(* of it.                                                                  *)
(***************************************************************************)
\* The error each exit of the two handlers returns: every one is
\* `return nil`, the skips after a failed lookup included.
ReturnedError_RepoInfoPropagates(outcome) ==
    IF outcome = "no branch" THEN "error getting repository info" ELSE ""

ReturnedError(outcome) ==
    CASE outcome \in {"no repository name", "latest not found", "no branch", "not resolved"} -> ""
      [] outcome \in {"up to date", "updated", "already pinned", "pinned"} -> ""
      [] OTHER -> ""

\* findUpdatesInNodes logs the error of handleUsesValue and continues with
\* the next pair; it returns nil at the end of the traversal.
WalkError(handlerErr) == ""

RepoInfoAnswers ==
    {RepoInfo("ok", TRUE, <<"main">>), RepoInfo("ok", TRUE, EmptyString),
     RepoInfo("ok", FALSE, EmptyString), RepoInfo("404", FALSE, EmptyString),
     RepoInfo("err", FALSE, EmptyString)}

HandlerActions ==
    {WorkflowAction("github", RepoOwner, repo, ref) :
        repo \in {<<"r", "/", "wf", ".", "yml">>, <<"q", "/", "wf", ".", "yml">>,
                  <<"r">>, <<"q">>},
        ref \in {EmptyString, <<"main">>, <<"v4">>, <<Sha1>>}}

HandlerInit ==
    /\ rin \in [action : HandlerActions, line : {UsesLineNumber}]
    /\ Update \in BOOLEAN
    /\ \E rem \in Remotes, info \in RepoInfoAnswers : remote = [rem EXCEPT !.repoInfo = info]
    /\ rout = [handled |-> HandlerResult(NoUpdates, 0, <<>>, ""), err |-> "", walk |-> ""]
    /\ rpc = "handler"
    /\ disk = EmptyString
    /\ pc = "idle"
    /\ WalkerIdle

\* The handler's result, the error it returns and the error of the walk.
HandlerReturn(h) ==
    [handled |-> h, err |-> ReturnedError(h.outcome),
     walk |-> WalkError(ReturnedError(h.outcome))]

\* The dispatch at the end of handleUsesValue, after a successful parse.
HandlerCall ==
    /\ rpc = "handler"
    /\ \E isSHA \in {StrLen(rin.action.Ref) = SHALength /\ IsHexString(rin.action.Ref)} :
          rout' = HandlerReturn(
                    IF ContainsYamlSuffix(rin.action.Repo)
                    THEN handleWorkflowReference(remote, Update, rin.action, rin.line,
                                                 NoUpdates, 0, isSHA)
                    ELSE handleActionReference(remote, Update, rin.action, rin.line,
                                               NoUpdates, 0, isSHA))
    /\ rpc' = "handler returned"
    /\ UNCHANGED <<remote, rin, Update, disk, pc, fileData, fileRoot, pos, fileUpdates,
                   fileUpdatesMade, ret, remoteCalls, writes, trace, run, prev>>

SpecHandler == HandlerInit /\ [][HandlerCall]_vars

(***************************************************************************)
(* SpecFiles: the command's loop over the entries of the workflows         *)
(* directory.  rin holds the entries as os.ReadDir listed them, rout the   *)
(* loop's index, totalUpdates and the text of every file as it is on disk  *)
(* once the loop has left it; disk is the file being processed.            *)
(***************************************************************************)
MaxFiles == 2

DirEntry(kind, text) == [kind |-> kind, text |-> text]

\* Workflow files, and an entry the loop skips (a directory, a dot file, a
\* file that is neither .yml nor .yaml).
WorkflowFiles ==
    {DirEntry("workflow", TextOf(<<<<"steps:">>>> \o ls)) :
        ls \in {<<LineTag>>, <<LineTag, LineWorkflow>>, <<LineFlow>>, <<LineNoRef, LineTag>>}}
DirEntries == WorkflowFiles \cup {DirEntry("skipped", EmptyString)}
Directories == UNION {[1..n -> DirEntries] : n \in 0..MaxFiles}

LoopState(index, totalUpdates, texts) ==
    [index |-> index, totalUpdates |-> totalUpdates, texts |-> texts]

FilesInit ==
    /\ rin \in Directories
    /\ rout = LoopState(0, 0, [i \in 1..Len(rin) |-> rin[i].text])
    /\ rpc = "loop"
    /\ remote \in Remotes
    /\ Update \in BOOLEAN
    /\ disk = EmptyString
    /\ pc = "idle"
    /\ WalkerIdle

\* Mutant of NextEntry: the loop takes the next entry while the current file
\* is still being walked.
NextEntry_NoWait ==
    /\ rpc \in {"loop", "file"}
    /\ pc \in {"idle", "walk"}
    /\ rout.index < Len(rin)
    /\ rout' = [rout EXCEPT !.index = @ + 1]
    /\ IF rin[rout.index + 1].kind = "skipped"
       THEN UNCHANGED <<rpc, disk, pc, remoteCalls, writes, trace>>
       ELSE /\ rpc' = "file"
            /\ disk' = rout.texts[rout.index + 1]
            /\ pc' = "call"
            /\ remoteCalls' = <<>>
            /\ writes' = 0
            /\ trace' = <<>>
    /\ UNCHANGED <<remote, rin, Update, fileData, fileRoot, pos, fileUpdates, fileUpdatesMade,
                   ret, run, prev>>

\* for _, wf := range workflows: the entry is skipped, or
\* UpdateWorkflowActionSHAs is called on its path.
NextEntry ==
    /\ rpc = "loop"
    /\ pc = "idle"
    /\ rout.index < Len(rin)
    /\ rout' = [rout EXCEPT !.index = @ + 1]
    /\ IF rin[rout.index + 1].kind = "skipped"
       THEN UNCHANGED <<rpc, disk, pc, remoteCalls, writes, trace>>
       ELSE /\ rpc' = "file"
            /\ disk' = rout.texts[rout.index + 1]
            /\ pc' = "call"
            /\ remoteCalls' = <<>>
            /\ writes' = 0
            /\ trace' = <<>>
    /\ UNCHANGED <<remote, rin, Update, fileData, fileRoot, pos, fileUpdates, fileUpdatesMade,
                   ret, run, prev>>

\* updated, err := UpdateWorkflowActionSHAs(ctx, client, filePath) has
\* returned: the loop logs the outcome and adds to totalUpdates.
FinishFile ==
    /\ rpc = "file"
    /\ pc = "done"
    /\ rout' = [rout EXCEPT
                   !.totalUpdates = IF ret.err = "" /\ ret.n > 0 THEN @ + ret.n ELSE @,
                   !.texts[rout.index] = disk]
    /\ rpc' = "loop"
    /\ pc' = "idle"
    /\ UNCHANGED <<remote, rin, Update, disk, fileData, fileRoot, pos, fileUpdates,
                   fileUpdatesMade, ret, remoteCalls, writes, trace, run, prev>>

FilesNext == NextEntry \/ FinishFile \/ Enter \/ HandleUses \/ Leave

SpecFiles == FilesInit /\ [][FilesNext]_vars

(***************************************************************************)
(* SpecWalk: findUpdatesInNodes over node trees as yaml.v3 builds them:    *)
(* mappings, sequences, scalars and aliases nested in each other, `uses`   *)
(* keys with scalar and with container values, keys that differ from       *)
(* `uses`, and several `uses` entries on one line (flow style).  A mapping *)
(* holds its keys and values alternately; for an alias node the content    *)
(* field holds the node the alias stands for (yaml.Node.Alias).            *)
(***************************************************************************)
MappingNode(line, content) == Node("Mapping", EmptyString, line, content)
SequenceNode(line, content) == Node("Sequence", EmptyString, line, content)
AliasNode(line, target) == Node("Alias", EmptyString, line, <<target>>)
Key(name, line) == ScalarNode(<<name>>, line)

\* The values on a line: two references that resolve, mappings holding them
\* under `uses` and under another key, a mapping with a second `uses` nested
\* in it, sequences of these mappings and aliases of them.
WalkScalars(line) ==
    {ScalarNode(<<"o", "/", "r", "@", "v4">>, line),
     ScalarNode(<<"o", "/", "r", "@", "main">>, line)}
WalkMappings(line) ==
    {MappingNode(line, <<Key(k, line), v>>) : k \in {"uses", "with"}, v \in WalkScalars(line)}
        \cup {MappingNode(line, <<Key("uses", line), ScalarNode(<<"o", "/", "r", "@", "v4">>, line),
                                  Key("with", line),
                                  MappingNode(line, <<Key("uses", line),
                                      ScalarNode(<<"o", "/", "r", "@", "main">>, line)>>)>>)}
WalkValues(line) ==
    WalkScalars(line) \cup WalkMappings(line)
        \cup {SequenceNode(line, <<m>>) : m \in WalkMappings(line)}
        \cup {AliasNode(line, m) : m \in WalkMappings(line)}

\* The documents: a mapping of two entries, the first under `uses`, `Uses` or
\* `with` on line 2, the second under `jobs` on line 2 or 3.
WalkRootsEndingOn(line) ==
    {Node("Document", EmptyString, 1,
          <<MappingNode(2, <<Key(k, 2), v, Key("jobs", line), w>>)>>) :
        k \in {"uses", "Uses", "with"}, v \in WalkValues(2), w \in WalkValues(line)}
WalkRoots == WalkRootsEndingOn(2) \cup WalkRootsEndingOn(3)

WalkInit ==
    /\ fileRoot \in WalkRoots
    /\ remote = RemoteWith("lightweight", "release")
    /\ Update \in BOOLEAN
    /\ pc = "walk"
    /\ disk = EmptyString
    /\ fileData = EmptyString
    /\ pos = 1
    /\ fileUpdates = NoUpdates
    /\ fileUpdatesMade = 0
    /\ ret = Returned0(0, "")
    /\ remoteCalls = <<>>
    /\ writes = 0
    /\ trace = <<>>
    /\ run = "first"
    /\ prev = NoRun
    /\ ResolverIdle

SpecWalk == WalkInit /\ [][HandleUses]_vars


(***************************************************************************)
(* What the remote holds about the arguments of the call, read off the     *)
(* remote's state and not off the resolver.                                *)
(***************************************************************************)
ValidArgs ==
    rin.client /\ rin.owner # EmptyString /\ rin.repo # EmptyString /\ rin.ref # EmptyString
ShaShaped == StrLen(rin.ref) = SHALength /\ IsHexString(rin.ref)
TheCommit == GetCommit(remote, rin.owner, rin.repo, rin.ref)
TheTagRef == GetTagRef(remote, rin.owner, rin.repo, rin.ref)
TheTagObj == GetTag(remote, rin.owner, rin.repo, TheTagRef.sha)
TheBranch == GetBranchRef(remote, rin.owner, rin.repo, rin.ref)
IsObject(resp, type) == resp.st = "ok" /\ resp.hasObj /\ resp.type = type
CommitFound == ShaShaped /\ TheCommit.st = "ok"
LightweightTag == IsObject(TheTagRef, "commit")
AnnotatedTag == IsObject(TheTagRef, "tag") /\ IsObject(TheTagObj, "commit")
TagFound == LightweightTag \/ AnnotatedTag
TagCommit == IF LightweightTag THEN TheTagRef.sha ELSE TheTagObj.sha
BranchFound == IsObject(TheBranch, "commit")
Returned == rpc = "ret"
CallOps == [i \in 1..Len(rout.calls) |-> rout.calls[i].op]

CallRank(op) ==
    CASE op = "GetCommit" -> 1
      [] op = "GetRef/tags" -> 2
      [] op = "GetTag" -> 3
      [] op = "GetRef/heads" -> 4

\* C3: the lookups are issued in the order commit, tag reference, tag object,
\* branch reference, and the first step that succeeds gives the result: an
\* existing commit wins over a tag or branch of the same name, and a tag wins
\* over a branch of the same name.
C3_FirstSuccessWins ==
    (Returned /\ ValidArgs) =>
        /\ \A i, j \in 1..Len(rout.calls) :
              i < j => CallRank(rout.calls[i].op) < CallRank(rout.calls[j].op)
        /\ CommitFound => (rout.err = NoError /\ rout.sha = rin.ref)
        /\ (~CommitFound /\ TagFound) => (rout.err = NoError /\ rout.sha = TagCommit)
        /\ (~CommitFound /\ ~TagFound /\ BranchFound) =>
              (rout.err = NoError /\ rout.sha = TheBranch.sha)

C3_Witness ==
    /\ Returned /\ ValidArgs /\ ~CommitFound /\ TagFound /\ BranchFound
    /\ TagCommit # TheBranch.sha
    /\ rout.sha = TagCommit

\* The commits the three steps can find for the arguments of the call.
FoundShas ==
    (IF CommitFound THEN {rin.ref} ELSE {})
        \cup (IF TagFound THEN {TagCommit} ELSE {})
        \cup (IF BranchFound THEN {TheBranch.sha} ELSE {})

\* C4: a SHA returned without error is the reference itself found by the commit
\* lookup, the commit the tag lookup found, or the commit the branch lookup
\* found, in the remote's state.
C4_NoFabricatedSha ==
    (Returned /\ rout.err = NoError) => rout.sha \in FoundShas

C4_Witness ==
    /\ Returned /\ rout.err = NoError /\ ShaShaped /\ ~CommitFound
    /\ rout.sha \in FoundShas /\ rout.sha # rin.ref

\* C5: a reference of 40 hexadecimal characters that the commit lookup finds is
\* returned unchanged after that one lookup, with no tag or branch lookup; for
\* a reference that is not 40 hexadecimal characters no commit lookup is issued.
C5_ShaFastPath ==
    Returned =>
        /\ (ValidArgs /\ CommitFound) =>
              /\ rout.err = NoError
              /\ rout.sha = rin.ref
              /\ CallOps = <<"GetCommit">>
        /\ ~ShaShaped => \A i \in 1..Len(rout.calls) : rout.calls[i].op # "GetCommit"

C5_Witness ==
    /\ Returned /\ ValidArgs /\ CommitFound /\ TagFound /\ BranchFound
    /\ rout.sha = rin.ref

\* C6: with a client and non-empty arguments, when neither commit verification
\* nor tag resolution nor branch resolution succeeds the call returns the empty
\* SHA and the reference-not-found error naming ref, owner and repo; a call
\* never returns the empty SHA without an error.
C6_NotFoundAfterAllSteps ==
    Returned =>
        /\ (ValidArgs /\ ~CommitFound /\ ~TagFound /\ ~BranchFound) =>
              /\ rout.sha = EmptyString
              /\ rout.err = ResolveError("reference not found as a tag or branch",
                                         rin.ref, rin.owner, rin.repo)
        /\ rout.sha = EmptyString => rout.err # NoError

C6_Witness ==
    /\ Returned /\ ValidArgs /\ ShaShaped
    /\ TheCommit.st = "err" /\ IsObject(TheTagRef, "tree") /\ TheBranch.st = "ok"
    /\ ~TheBranch.hasObj
    /\ rout.sha = EmptyString /\ rout.err.kind = "reference not found as a tag or branch"

(***************************************************************************)
(* The parts of a `uses` value `owner/repoPath@ref`, read off the text at  *)
(* its first "@" and its first "/", and what the walk retains.             *)
(***************************************************************************)
OwnerOf(v) == SubSeq(v, 1, Index(v, "/") - 1)
RepoPathOf(v) == SubSeq(v, Index(v, "/") + 1, Index(v, "@") - 1)
RefOf(v) == SubSeq(v, Index(v, "@") + 1, Len(v))
FirstSegment(path) == IF Index(path, "/") = 0 THEN path ELSE SubSeq(path, 1, Index(path, "/") - 1)

\* A reference of 40 hexadecimal characters.
FullSha(ref) == Len(ref) = 1 /\ ref[1] \in HexWords /\ Len(ref[1]) = SHALength

\* A retained occurrence: it classifies as a GitHub reference with an owner
\* and a repository path.
Retained(v) ==
    /\ ParseActionReference(v).err = ""
    /\ ParseActionReference(v).action.Type = "github"
    /\ OwnerOf(v) # EmptyString
    /\ RepoPathOf(v) # EmptyString


\* The replacement value `<owner>/<repoPath>@<sha> #<ref>`.
Replacement(v, sha, ref) ==
    OwnerOf(v) \o <<"/">> \o RepoPathOf(v) \o <<"@">> \o sha \o <<SP, "#">> \o ref

\* Line n of a text, its indentation and what follows the indentation.
LineAt(text, n) == Split(text, NL)[n]
IndentOf(line) == SubSeq(line, 1, Len(line) - Len(TrimLeft(line, {SP, TAB})))
AfterIndent(line) == TrimLeft(line, {SP, TAB})
DashMarker(line) == IF HasPrefix(AfterIndent(line), <<"-", SP>>) THEN <<"-", SP>> ELSE <<>>
UsesLine(line) ==
    \/ HasPrefix(AfterIndent(line), <<"uses:">>)
    \/ HasPrefix(AfterIndent(line), <<"-", SP, "uses:">>)

\* The line `<indent>[- ]uses: <value>` that replaces line.
Rewritten(line, value) == IndentOf(line) \o DashMarker(line) \o <<"uses:", SP>> \o value

\* What resolve(owner, firstSegment(repoPath), ref) answers for a value.
Resolved(v) == ResolveRefToSHA(remote, TRUE, OwnerOf(v), FirstSegment(RepoPathOf(v)), RefOf(v))

\* The occurrences of this run that pin mode has a SHA for: retained, not yet
\* a 40-hex reference, resolved by the remote.
PinCase(e) ==
    /\ ~Update
    /\ e.fresh
    /\ Retained(e.value)
    /\ ~FullSha(RefOf(e.value))
    /\ Resolved(e.value).err = NoError
    /\ Resolved(e.value).sha # EmptyString

\* The edit pin mode owes such an occurrence, and the lookups it may make.
PinEdit(e) ==
    /\ e.edited
    /\ e.edit = Replacement(e.value, Resolved(e.value).sha, RefOf(e.value))
    /\ e.calls = Resolved(e.value).calls
    /\ \A i \in 1..Len(e.calls) :
          e.calls[i].owner = OwnerOf(e.value)
          /\ e.calls[i].repo = FirstSegment(RepoPathOf(e.value))

FileDone == pc = "done" /\ ret.err = "" /\ fileRoot # NilNode

\* C1 (as stated): in pin mode every retained occurrence whose ref is not 40
\* hexadecimal characters and that the remote resolves to sha has its line
\* rewritten to `<indent>[- ]uses: <owner>/<repoPath>@<sha> #<originalRef>`,
\* the lookups naming only the first segment of repoPath as the repository.
C1_EveryResolvedLineRewritten ==
    FileDone =>
        \A k \in 1..Len(trace) :
            PinCase(trace[k]) =>
                /\ PinEdit(trace[k])
                /\ LineAt(disk, trace[k].line) =
                      Rewritten(LineAt(fileData, trace[k].line), trace[k].edit)

\* C1 (amended): in pin mode every such occurrence is given the edit
\* `<owner>/<repoPath>@<sha> #<originalRef>`, looked up in the repository
\* named by the first segment of repoPath; its line is rewritten to
\* `<indent>[- ]uses: <edit>` when the text of the line after its
\* indentation begins with `uses:` or `- uses:`, and is left as it was
\* otherwise.
C1_ResolvedUsesLineRewritten ==
    FileDone =>
        \A k \in 1..Len(trace) :
            PinCase(trace[k]) =>
                /\ PinEdit(trace[k])
                /\ LineAt(disk, trace[k].line) =
                      IF UsesLine(LineAt(fileData, trace[k].line))
                      THEN Rewritten(LineAt(fileData, trace[k].line), trace[k].edit)
                      ELSE LineAt(fileData, trace[k].line)

\* A finished pin run that rewrote a `- uses:` line whose repoPath has a
\* subpath, and left alone a resolved line of another form.
C1_Witness ==
    /\ FileDone
    /\ \E k \in 1..Len(trace) :
          /\ PinCase(trace[k])
          /\ UsesLine(LineAt(fileData, trace[k].line))
          /\ FirstSegment(RepoPathOf(trace[k].value)) # RepoPathOf(trace[k].value)
          /\ LineAt(disk, trace[k].line) # LineAt(fileData, trace[k].line)
    /\ \E k \in 1..Len(trace) :
          PinCase(trace[k]) /\ ~UsesLine(LineAt(fileData, trace[k].line))

\* Every `uses` value of the document carries a 40-hex reference.
AllPinned ==
    \A k \in 1..Len(Occurrences(fileRoot)) :
        /\ Index(Occurrences(fileRoot)[k].value, "@") # 0
        /\ FullSha(RefOf(Occurrences(fileRoot)[k].value))

\* C7: a pin-mode walk over a document whose `uses` values all carry a
\* 40-hex reference ends with an empty edit map and an edit count of 0, has
\* issued no remote call and has not written the file.
C7_PinnedDocumentUntouched ==
    (pc = "done" /\ fileRoot # NilNode /\ ~Update /\ AllPinned) =>
        /\ fileUpdates = NoUpdates
        /\ fileUpdatesMade = 0
        /\ ret = Returned0(0, "")
        /\ remoteCalls = <<>>
        /\ writes = 0
        /\ disk = fileData

\* A finished pin walk over a pinned action and a pinned reusable workflow.
C7_Witness ==
    /\ pc = "done" /\ fileRoot # NilNode /\ ~Update /\ AllPinned
    /\ Len(trace) = Len(Occurrences(fileRoot))
    /\ \E k \in 1..Len(trace) : ContainsYamlSuffix(trace[k].value)
    /\ \E k \in 1..Len(trace) : ~ContainsYamlSuffix(trace[k].value)

\* C8 (as stated): update mode run on a file and run again on the resulting
\* file, the remote unchanged, makes zero edits on the second run (edit
\* count 0, empty edit map, file content unchanged), whatever the document.
C8_SecondUpdateRunMakesNoEdits ==
    (pc = "done" /\ run = "second" /\ Update /\ prev.ret.err = "" /\ ret.err = "") =>
        /\ ret.n = 0
        /\ fileUpdates = NoUpdates
        /\ disk = fileData

\* What discoverLatest(owner, firstSegment(repoPath)) answers for a value.
Latest(v) == GetLatestActionRef(remote, OwnerOf(v), FirstSegment(RepoPathOf(v)))
LatestFound(v) ==
    Latest(v).err = "" /\ Latest(v).sha # EmptyString /\ Latest(v).ref # EmptyString

C10_EmptyEditMapIsIdentity ==
    (pc = "rewritten" /\ fileUpdates = NoUpdates) => fileData = disk

\* A rewritten text of several lines that does not end with a newline.
C10_Witness ==
    /\ pc = "rewritten"
    /\ fileUpdates = NoUpdates
    /\ Len(disk) = MaxTextLen
    /\ disk[1] # NL
    /\ disk[2] = NL
    /\ disk[Len(disk)] # NL



\* The lines of the text on disk, and the lines that have a pending edit.
DiskLines == Split(disk, NL)
EditedLines == DOMAIN fileUpdates \cap (1..Len(DiskLines))

\* The leading run of spaces and tabs of a line.
LeadingBlanks(line) ==
    LET stops == {i \in 1..Len(line) : line[i] \notin {SP, TAB}}
    IN  IF stops = {} THEN line
        ELSE SubSeq(line, 1, (CHOOSE i \in stops : \A j \in stops : i <= j) - 1)

\* The trimmed line begins with `- uses:`, or with `uses:`.
BeginsDashUses(line) == HasPrefix(TrimSpace(line), <<"-", SP, "uses:">>)
BeginsUses(line) == HasPrefix(TrimSpace(line), <<"uses:">>)

\* C11: a line with a pending edit whose trimmed content begins with `uses:`
\* or `- uses:` is rewritten to its leading spaces and tabs, then `- ` if and
\* only if the trimmed original began with `- uses:`, then `uses: ` and the
\* replacement text.
C11_EditedLineKeepsIndentAndMarker ==
    pc = "rewritten" =>
        \A n \in EditedLines :
            (BeginsUses(DiskLines[n]) \/ BeginsDashUses(DiskLines[n])) =>
                LineAt(fileData, n) =
                    LeadingBlanks(DiskLines[n])
                    \o (IF BeginsDashUses(DiskLines[n]) THEN <<"-", SP>> ELSE <<>>)
                    \o <<"uses:", SP>> \o fileUpdates[n]

\* An indented `- uses:` line was rewritten.
C11_Witness ==
    /\ pc = "rewritten"
    /\ 1 \in EditedLines
    /\ DiskLines[1] = <<TAB, "-", SP, "uses:">>
    /\ LineAt(fileData, 1) = <<TAB, "-", SP, "uses:", SP>> \o fileUpdates[1]

\* A plain `uses:` line indented with a space was rewritten.
C11_WitnessPlain ==
    /\ pc = "rewritten"
    /\ 1 \in EditedLines
    /\ DiskLines[1] = <<SP, "uses:", "x">>
    /\ LineAt(fileData, 1) = <<SP, "uses:", SP>> \o fileUpdates[1]

\* The text ends with a newline; the line ends with a carriage return.
EndsWithNewline(text) == Len(text) > 0 /\ text[Len(text)] = NL
EndsWithCR(line) == Len(line) > 0 /\ line[Len(line)] = CR

\* The lines of the rewritten text.
OutLines == Split(fileData, NL)

\* Rewriting keeps the number of lines, the lines without an edit and the
\* presence or absence of the final newline.
RewriteKeepsUneditedText ==
    pc = "rewritten" =>
        /\ Len(OutLines) = Len(DiskLines)
        /\ \A n \in (1..Len(DiskLines)) \ EditedLines : OutLines[n] = DiskLines[n]
        /\ EndsWithNewline(fileData) <=> EndsWithNewline(disk)

\* C12: the rewritten text has the lines of the input, unchanged where no
\* edit is pending and with the same number of lines and the same final
\* newline, and every line, edited ones included, keeps its line ending: a
\* line that ended with a carriage return still ends with one.
C12_RewriteKeepsLineEndings ==
    pc = "rewritten" =>
        /\ Len(OutLines) = Len(DiskLines)
        /\ \A n \in (1..Len(DiskLines)) \ EditedLines : OutLines[n] = DiskLines[n]
        /\ EndsWithNewline(fileData) <=> EndsWithNewline(disk)
        /\ \A n \in 1..Len(DiskLines) : EndsWithCR(OutLines[n]) <=> EndsWithCR(DiskLines[n])

\* An edited `uses:` line of a CRLF text comes out without its carriage
\* return.
C12_CarriageReturnLost ==
    /\ pc = "rewritten"
    /\ disk = <<"uses:", "x", CR, NL>>
    /\ 1 \in EditedLines
    /\ fileData = <<"uses:", SP>> \o fileUpdates[1] \o <<NL>>

\* The lines of the file as read whose pending edit the rewrite discards:
\* their trimmed text begins with neither `uses:` nor `- uses:`.
DiscardedEdits ==
    {n \in DOMAIN fileUpdates :
        ~BeginsUses(LineAt(fileData, n)) /\ ~BeginsDashUses(LineAt(fileData, n))}

\* C13: a pending edit on a line that begins with neither `uses:` nor
\* `- uses:` leaves that line as it was, and the edit count returned for the
\* file counts every pending edit, the discarded ones included.
C13_DiscardedEditStillCounted ==
    FileDone =>
        /\ \A n \in DiscardedEdits : LineAt(disk, n) = LineAt(fileData, n)
        /\ ret.n = Cardinality(DOMAIN fileUpdates)

\* A file was written back with a discarded edit next to an applied one.
C13_Witness ==
    /\ FileDone
    /\ writes > 0
    /\ DiscardedEdits # {}
    /\ DOMAIN fileUpdates \ DiscardedEdits # {}
    /\ ret.n = 2

\* Where the comment sign stands in a replacement value.
HashAt(edit) == CHOOSE i \in 1..Len(edit) : edit[i] = "#"
HasComment(edit) == \E i \in 1..Len(edit) : edit[i] = "#"

\* The comment of a replacement value as yamllint's defaults want it: the
\* 40-hex SHA, two spaces, `#`, one space, the ref.
YamllintComment(edit) ==
    /\ HasComment(edit)
    /\ HashAt(edit) > 3
    /\ HashAt(edit) + 2 <= Len(edit)
    /\ FullSha(<<edit[HashAt(edit) - 3]>>)
    /\ edit[HashAt(edit) - 2] = SP
    /\ edit[HashAt(edit) - 1] = SP
    /\ edit[HashAt(edit) + 1] = SP
    /\ edit[HashAt(edit) + 2] # SP

\* The comment as the handlers format it: the 40-hex SHA, one space, `#` and
\* the ref with nothing in between.
TightComment(edit) ==
    /\ HasComment(edit)
    /\ HashAt(edit) > 2
    /\ HashAt(edit) + 1 <= Len(edit)
    /\ FullSha(<<edit[HashAt(edit) - 2]>>)
    /\ edit[HashAt(edit) - 1] = SP
    /\ edit[HashAt(edit) + 1] # SP

\* Every edit scheduled by the handlers carries the comment ` #<ref>`.
EditsCarryTightComment ==
    \A k \in 1..Len(trace) : trace[k].edited => TightComment(trace[k].edit)

\* C14: every replacement value written for a pinned or updated line has
\* exactly two spaces between the 40-hex SHA and `#` and one space between
\* `#` and the ref.
C14_CommentInYamllintStyle ==
    \A k \in 1..Len(trace) : trace[k].edited => YamllintComment(trace[k].edit)

\* The `uses` values of the parsed document, in document order.
UsesOfDocument == IF Len(fileRoot.content) > 0 THEN UsesNodes(fileRoot.content[1]) ELSE <<>>

\* An occurrence that fails: its value does not classify, or it is retained
\* and its lookup (discovery in update mode, resolution in pin mode) ends
\* with an error.
FailedOccurrence(e) ==
    /\ e.fresh
    /\ \/ ParseActionReference(e.value).err # ""
       \/ /\ Retained(e.value)
          /\ IF Update THEN Latest(e.value).err # ""
             ELSE ~FullSha(RefOf(e.value)) /\ Resolved(e.value).err # NoError

\* An occurrence failed on a transport error: some call made for it was
\* answered with an error other than not-found.
TransportFailure(e) ==
    /\ FailedOccurrence(e)
    /\ Retained(e.value)
    /\ ~InRepo(OwnerOf(e.value), FirstSegment(RepoPathOf(e.value)))
    /\ remote.elsewhere = "err"

\* The edit an occurrence is owed when its lookup succeeds.
OwedEdit(e) ==
    IF Update
    THEN Replacement(e.value, Latest(e.value).sha, Latest(e.value).ref)
    ELSE Replacement(e.value, Resolved(e.value).sha, RefOf(e.value))
Owed(e) ==
    /\ e.fresh
    /\ Retained(e.value)
    /\ IF Update
       THEN LatestFound(e.value)
            /\ ~(FullSha(RefOf(e.value)) /\ RefOf(e.value) = Latest(e.value).sha)
       ELSE PinCase(e)

\* C15: when an occurrence fails (classification, resolution, discovery or
\* transport error), the walk still handles every `uses` value of the
\* document, and every other occurrence whose lookup succeeds is given its
\* edit, whether the failing occurrence comes before or after it.
C15_FailureSkipsOnlyThatOccurrence ==
    (pc = "done" /\ fileRoot # NilNode) =>
        /\ Len(trace) = Len(UsesOfDocument)
        /\ \A k \in 1..Len(trace) : trace[k].value = UsesOfDocument[k].value
        /\ \A j \in 1..Len(trace) : \A k \in 1..Len(trace) :
              (j # k /\ FailedOccurrence(trace[j]) /\ Owed(trace[k])) =>
                  trace[k].edited /\ trace[k].edit = OwedEdit(trace[k])

\* A value that does not classify, followed by a reference that is edited.
C15_Witness ==
    /\ pc = "done"
    /\ Len(trace) = 2
    /\ FailedOccurrence(trace[1])
    /\ ParseActionReference(trace[1].value).err # ""
    /\ Owed(trace[2])
    /\ trace[2].edited

\* A reference that is edited, followed by one that fails on a transport
\* error.
C15_WitnessFailureLast ==
    /\ pc = "done"
    /\ Len(trace) = 2
    /\ Owed(trace[1])
    /\ trace[1].edited
    /\ TransportFailure(trace[2])

\* A discovery that finds nothing, followed by one that succeeds.
C15_WitnessDiscovery ==
    /\ pc = "done"
    /\ Update
    /\ Len(trace) = 2
    /\ FailedOccurrence(trace[1])
    /\ Retained(trace[1].value)
    /\ remote.elsewhere = "404"
    /\ Owed(trace[2])
    /\ trace[2].edited

\* The shapes of a `uses` value: a local path, a container reference, and a
\* value that is not `<owner>/<repoPath>@<ref>` with the three parts
\* non-empty (no `@`, no `/` before the first `@`, or an empty part).
IsLocalPath(v) == HasPrefix(v, <<".", "/">>) \/ HasPrefix(v, <<".", ".", "/">>)
IsContainer(v) == HasPrefix(v, DockerPrefix)
WellFormed(v) ==
    /\ Index(v, "@") > 0
    /\ Index(v, "/") > 1
    /\ Index(v, "/") + 1 < Index(v, "@")
    /\ Index(v, "@") < Len(v)
Skippable(v) == IsLocalPath(v) \/ IsContainer(v) \/ ~WellFormed(v)

\* C16: a `uses` value that is a local path, a container reference,
\* malformed, or has an empty owner or repository path gets no edit and
\* causes no remote call, in pin mode and in update mode.
C16_SkippedValueNoEditNoCall ==
    (rpc = "handled" /\ Skippable(rin.uses)) =>
        /\ rout.handled.updates = NoUpdates
        /\ rout.handled.updatesMade = 0
        /\ rout.handled.calls = <<>>

\* The same for the occurrences of a whole file.
SkippedOccurrencesNoEditNoCall ==
    \A k \in 1..Len(trace) :
        Skippable(trace[k].value) => ~trace[k].edited /\ trace[k].calls = <<>>

\* A local path was handled in update mode, and the handler does act on a
\* well-formed value under the same remote.
C16_Witness ==
    /\ rpc = "handled"
    /\ Update
    /\ rin.uses = <<".", ".", "/", "o", "@">>
    /\ rout.handled.calls = <<>>
    /\ handleUsesValue(remote, Update, ScalarNode(<<"o", "/", "r", "@", "v4">>, rin.line),
                       NoUpdates, 0).updatesMade = 1

\* A container reference, and a value with an empty owner, were handled.
C16_WitnessContainer ==
    /\ rpc = "handled"
    /\ rin.uses = DockerPrefix \o <<"a", ":", "a">>
    /\ rout.handled.outcome = "not a github reference"
C16_WitnessEmptyOwner ==
    /\ rpc = "handled"
    /\ rin.uses = <<"/", "r", "@", "v4">>
    /\ rout.handled.outcome = "parse error"

\* What ParseActionReference returned for the value.
Parsed == rout.parsed

\* The three parts are the text before the first `/`, the text between the
\* first `/` and the first `@`, and all the text after the first `@`.
SplitPositionally(v) ==
    /\ Parsed.err = ""
    /\ Parsed.action.Name = OwnerOf(v)
    /\ Parsed.action.Repo = RepoPathOf(v)
    /\ Parsed.action.Ref = RefOf(v)

\* C17 (as stated): every value `<owner>/<repoPath>@<ref>` with the three
\* parts non-empty, no `/` or `@` in owner and no `@` in repoPath is
\* classified with owner the text before the first `/`, repoPath the text
\* between the first `/` and the first `@`, ref the text after the first `@`.
C17_EveryWellFormedValueSplit ==
    (rpc = "handled" /\ WellFormed(rin.uses)) => SplitPositionally(rin.uses)

\* C17 (amended): the same for the values that begin with none of `./`,
\* `../` and `docker://`; those are classified as a GitHub reference.
C17_GitHubValueSplit ==
    (rpc = "handled" /\ WellFormed(rin.uses) /\ ~IsLocalPath(rin.uses)
     /\ ~IsContainer(rin.uses)) =>
        SplitPositionally(rin.uses) /\ Parsed.action.Type = "github"

\* A value whose ref contains a further `@` was classified.
C17_Witness ==
    /\ rpc = "handled"
    /\ rin.uses = <<"o", "/", "r", "@", "@">>
    /\ Parsed.action = WorkflowAction("github", <<"o">>, <<"r">>, <<"@">>)

\* A well-formed value whose owner is `.` was classified as a local path.
C17_DotOwnerIsLocal ==
    /\ rpc = "handled"
    /\ rin.uses = <<".", "/", "r", "@", "v4">>
    /\ WellFormed(rin.uses)
    /\ Parsed.action.Type = "local"
    /\ Parsed.action.Name = EmptyString

\* C18 (as stated): a value that begins with `./` or `../` is classified as
\* a local path and no other field is set: owner, repoPath and ref are empty.
C18_LocalPathNoOtherField ==
    (rpc = "handled" /\ IsLocalPath(rin.uses)) =>
        /\ Parsed.err = ""
        /\ Parsed.action.Type = "local"
        /\ Parsed.action.Name = EmptyString
        /\ Parsed.action.Repo = EmptyString
        /\ Parsed.action.Ref = EmptyString

\* C18 (amended): a value that begins with `./` or `../` is classified as a
\* local path with owner and ref empty; repoPath holds the whole value.
C18_LocalPathKeptInRepo ==
    (rpc = "handled" /\ IsLocalPath(rin.uses)) =>
        /\ Parsed.err = ""
        /\ Parsed.action.Type = "local"
        /\ Parsed.action.Name = EmptyString
        /\ Parsed.action.Repo = rin.uses
        /\ Parsed.action.Ref = EmptyString

\* A `../` path that carries an `@` was classified.
C18_Witness ==
    /\ rpc = "handled"
    /\ rin.uses = <<".", ".", "/", "r", "@">>
    /\ Parsed.action = WorkflowAction("local", EmptyString, rin.uses, EmptyString)

\* What the remote answers to the two lookups of discovery, and how the
\* release's tag name resolves.
TheRelease == GetLatestRelease(remote, rin.owner, rin.repo)
TheTagList == ListTags(remote, rin.owner, rin.repo)
ReleaseUsable == TheRelease.st = "ok" /\ TheRelease.hasTag
ReleaseResolved == ResolveRefToSHA(remote, TRUE, rin.owner, rin.repo, TheRelease.tag)
ReleasePathSucceeds == ReleaseUsable /\ ReleaseResolved.err = NoError

\* A listed tag with a name and a commit SHA.
UsableEntry(t) == t.hasName /\ t.hasSha
FirstEntryUsable ==
    TheTagList.st = "ok" /\ Len(TheTagList.tags) > 0 /\ UsableEntry(TheTagList.tags[1])
SomeEntryUsable ==
    TheTagList.st = "ok" /\ \E i \in 1..Len(TheTagList.tags) : UsableEntry(TheTagList.tags[i])

\* The positions of the ListTags calls among the calls of the discovery.
ListTagsCalls == {i \in 1..Len(rout.calls) : rout.calls[i].op = "ListTags"}

\* C19: discovery asks for the latest release first; when a release exists
\* and its tag name resolves, the result is that tag name with the resolved
\* SHA and the tag list is not asked for; otherwise the tag list is asked for
\* once, after the release path, and with a usable first entry the result is
\* that entry's name and commit SHA, no lookup following the listing.
C19_ReleaseBeforeTagList ==
    rpc = "returned" =>
        /\ rout.calls # <<>>
        /\ rout.calls[1].op = "GetLatestRelease"
        /\ IF ReleasePathSucceeds
           THEN /\ rout.err = ""
                /\ rout.ref = TheRelease.tag
                /\ rout.sha = ReleaseResolved.sha
                /\ ListTagsCalls = {}
           ELSE /\ ListTagsCalls = {Len(rout.calls)}
                /\ FirstEntryUsable =>
                      /\ rout.err = ""
                      /\ rout.ref = TheTagList.tags[1].name
                      /\ rout.sha = TheTagList.tags[1].sha

\* The release's tag resolved through a tag object while the list's first
\* entry names another tag.
C19_Witness ==
    /\ rpc = "returned"
    /\ ReleasePathSucceeds
    /\ Len(ReleaseResolved.calls) > 1
    /\ FirstEntryUsable
    /\ TheTagList.tags[1].name = <<"v5">>
    /\ rout.ref = <<"v4">>
    /\ rout.sha = <<Sha1>>

\* A release whose tag does not resolve: the first listed tag is returned.
C19_WitnessFallback ==
    /\ rpc = "returned"
    /\ ReleaseUsable
    /\ ~ReleasePathSucceeds
    /\ Len(rout.calls) > 2
    /\ rout.ref = <<"v5">>
    /\ rout.sha = <<Sha2>>

\* C20 (as stated): discovery returns an error only if the release path
\* gives no release whose tag resolves and the tag listing has no entry with
\* a name and a commit SHA; when the listing has such an entry, or the
\* release path succeeds, it returns a non-empty ref name and SHA.
C20_ErrorOnlyIfNothingUsable ==
    rpc = "returned" =>
        /\ rout.err # "" => (~ReleasePathSucceeds /\ ~SomeEntryUsable)
        /\ (ReleasePathSucceeds \/ SomeEntryUsable) =>
              rout.err = "" /\ rout.ref # EmptyString /\ rout.sha # EmptyString

\* C20 (amended): discovery returns an error exactly when the release path
\* gives no release whose tag resolves and the tag listing fails, is empty,
\* or has a first entry without a name or a commit SHA; otherwise it returns
\* the release's tag name and resolved SHA, or the first entry's name and
\* commit SHA, which are non-empty when that entry's name and SHA are.
C20_ErrorIffFirstEntryUnusable ==
    rpc = "returned" =>
        /\ rout.err # "" <=> (~ReleasePathSucceeds /\ ~FirstEntryUsable)
        /\ ReleasePathSucceeds => rout.ref # EmptyString /\ rout.sha # EmptyString
        /\ (~ReleasePathSucceeds /\ FirstEntryUsable) =>
              /\ rout.ref = TheTagList.tags[1].name
              /\ rout.sha = TheTagList.tags[1].sha

\* No release; the first listed tag has no name, the second is usable, and
\* discovery fails.
C20_Witness ==
    /\ rpc = "returned"
    /\ ~ReleaseUsable
    /\ Len(TheTagList.tags) = 2
    /\ ~TheTagList.tags[1].hasName
    /\ UsableEntry(TheTagList.tags[2])
    /\ TheTagList.tags[2].name # EmptyString
    /\ rout.err = "invalid tag data"

\* No release; the first listed tag has an empty name, and discovery returns
\* it without error.
C20_WitnessEmptyName ==
    /\ rpc = "returned"
    /\ ~ReleaseUsable
    /\ FirstEntryUsable
    /\ rout.err = ""
    /\ rout.ref = EmptyString

\* A step that changes the file or counts a write.
FileWritten == disk' # disk \/ writes' > writes

\* The walk has handled every occurrence of the document.
WalkFinished == pc = "walk" /\ pos > Len(Occurrences(fileRoot))

\* C21: a run writes the file at most once; the write happens after the walk
\* has finished, with a positive edit count, and stores the text computed
\* from the bytes read at the start; a run that ends with a validation, read
\* or parse error or with an edit count of 0 has written nothing.
C21_SingleWriteAfterWalk ==
    /\ [](writes <= 1)
    /\ []((pc = "done" /\ (ret.err # "" \/ ret.n = 0)) => writes = 0)
    /\ [][FileWritten =>
            /\ WalkFinished
            /\ fileUpdatesMade > 0
            /\ writes = 0
            /\ fileData = disk
            /\ disk' = applyUpdatesToLines(fileData, fileUpdates)
            /\ writes' = 1
            /\ pc' = "done"]_vars

\* A run that wrote the rewritten text, and left it different from the text
\* it had read.
C21_Witness ==
    /\ pc = "done"
    /\ writes = 1
    /\ ret.n > 0
    /\ disk # fileData
    /\ disk = applyUpdatesToLines(fileData, fileUpdates)

\* A file that does not parse was left as it was.
C21_WitnessParseError ==
    /\ pc = "done"
    /\ ret.err = "error parsing YAML file"
    /\ writes = 0

\* The clear command has returned; it returned nil.
ClearReturned == rpc = "returned"
ClearSucceeded == rpc = "returned" /\ rout.err = ""

\* C22 (as stated): the cache directory is changed only when the force flag
\* is set; with the directory present and no force flag the command returns
\* an error and leaves the directory as it was; with the directory absent the
\* command succeeds, with or without the flag; with the flag set it succeeds
\* only if the directory is absent afterwards.
C22_ClearNeedsForce ==
    /\ rout.dir # rin.dir => rin.force
    /\ ClearReturned =>
          /\ (rin.dir.exists /\ ~rin.force) => (rout.err # "" /\ rout.dir = rin.dir)
          /\ ~rin.dir.exists => rout.err = ""
          /\ (rin.force /\ rout.err = "") => ~rout.dir.exists

\* C22 (amended): the same, the command succeeding on an absent directory
\* when os.UserCacheDir gives the cache location and os.Stat reports the
\* directory as not existing; when either fails the command returns an error.
C22_ClearNeedsForceWhenReadable ==
    /\ rout.dir # rin.dir => rin.force
    /\ ClearReturned =>
          /\ (rin.dir.exists /\ ~rin.force) => (rout.err # "" /\ rout.dir = rin.dir)
          /\ ~rin.dir.exists => (rout.err = "" <=> (rin.userCacheDir /\ rout.stat = "not exist"))
          /\ (rin.force /\ rout.err = "") => ~rout.dir.exists

\* With the force flag the directory and its entries were removed and the
\* command succeeded.
C22_Witness ==
    /\ ClearSucceeded
    /\ rin.force
    /\ rin.dir = CacheDir(TRUE, MaxEntries)
    /\ ~rout.dir.exists
    /\ rout.verify = "not exist"

\* Without the flag an existing directory was refused; an absent directory
\* whose status could not be read gave an error.
C22_WitnessRefused ==
    /\ ClearReturned
    /\ ~rin.force
    /\ rin.dir.exists
    /\ rout.err = "cache directory exists"
C22_WitnessUnreadable ==
    /\ ClearReturned
    /\ ~rin.dir.exists
    /\ rout.stat = "error"
    /\ rout.err # ""

\* A reusable-workflow value whose ref is empty: written without `@`, or
\* with nothing after it.
WorkflowWithoutRef(v) == v = WorkflowPath \/ v = WorkflowPath \o <<"@">>

\* The default branch of o/r and what it resolves to.
DefaultBranch == GetRepository(remote, RepoOwner, RepoName).branch
DefaultBranchResolved == ResolveRefToSHA(remote, TRUE, RepoOwner, RepoName, DefaultBranch)

\* C23: in pin mode a reusable workflow whose ref is empty is pinned: the
\* repository-info lookup comes first, the default branch is resolved, and
\* the edit is `<owner>/<repoPath>@<sha> #<defaultBranch>`.
C23_EmptyRefPinnedToDefaultBranch ==
    (rpc = "handled" /\ ~Update /\ WorkflowWithoutRef(rin.uses)
     /\ DefaultBranchResolved.err = NoError) =>
        /\ rout.handled.calls # <<>>
        /\ rout.handled.calls[1].op = "Repositories.Get"
        /\ rin.line \in DOMAIN rout.handled.updates
        /\ rout.handled.updates[rin.line] =
              WorkflowPath \o <<"@">> \o DefaultBranchResolved.sha \o <<SP, "#">>
              \o DefaultBranch

\* What happens instead: the value does not classify, nothing is looked up
\* and nothing is edited.
EmptyRefWorkflowSkipped ==
    (rpc = "handled" /\ WorkflowWithoutRef(rin.uses)) =>
        /\ rout.parsed.err # ""
        /\ rout.handled.outcome = "parse error"
        /\ rout.handled.calls = <<>>
        /\ rout.handled.updates = NoUpdates

\* The same workflow with a branch as its ref is pinned.
WorkflowWithBranchPinned ==
    (rpc = "handled" /\ ~Update /\ rin.uses = WorkflowPath \o <<"@", "main">>) =>
        rout.handled.updates =
            (rin.line :> (WorkflowPath \o <<"@", Sha3, SP, "#", "main">>))

\* The handler asked for the repository info and the lookup failed with an
\* error that is not a plain answer (a cancelled context, a transport error).
RepoInfoAsked ==
    \E i \in 1..Len(rout.handled.calls) : rout.handled.calls[i].op = "Repositories.Get"
RepoInfoCancelled ==
    /\ RepoInfoAsked
    /\ GetRepository(remote, rin.action.Name, SplitN2(rin.action.Repo, "/")[1]).st = "err"

EmptyRefPinnedByHandler ==
    /\ rpc = "handler returned"
    /\ ~Update
    /\ rin.action.Ref = EmptyString
    /\ rout.handled.updates =
          (rin.line :> (<<"o", "/", "r", "/", "wf", ".", "yml", "@", Sha3, SP, "#", "main">>))

\* The remote calls of the occurrences handled so far, one occurrence after
\* the other.
RECURSIVE CallsOf(_)
CallsOf(entries) ==
    IF entries = <<>> THEN <<>> ELSE Head(entries).calls \o CallsOf(Tail(entries))

\* A step that reads the file, issues a remote call or writes the file.
FileIO ==
    \/ pc = "call" /\ pc' # "call"
    \/ Len(remoteCalls') > Len(remoteCalls)
    \/ writes' > writes
    \/ (rpc = "file" /\ disk' # disk)

\* C25: the files are processed one after another: a file is read, looked
\* up and written only while it is the loop's current file, and the loop
\* takes its next entry only after the call for the current file has
\* returned, write-back included; within a file the occurrences are handled
\* in the order of the document, and the remote calls issued are those of the
\* first occurrence, then those of the second, and so on.
C25_OneFileAfterAnother ==
    /\ [](remoteCalls = CallsOf(trace))
    /\ [](fileRoot # NilNode /\ pc \in {"walk", "done"} =>
            /\ Len(trace) <= Len(UsesOfDocument)
            /\ \A k \in 1..Len(trace) : trace[k].value = UsesOfDocument[k].value)
    /\ [][FileIO => (rpc = "file" /\ rout' = rout)]_vars
    /\ [][rout.index' # rout.index =>
            (rpc = "loop" /\ pc = "idle" /\ rout.index' = rout.index + 1)]_vars
    /\ [][(rpc = "file" /\ rpc' = "loop") => pc = "done"]_vars

\* The loop has left a first file that was written back and is walking a
\* second file that needs remote calls too.
C25_Witness ==
    /\ rpc = "file"
    /\ rout.index = 2
    /\ rin[1].kind = "workflow"
    /\ rout.texts[1] # rin[1].text
    /\ rout.totalUpdates > 0
    /\ pc = "walk"
    /\ Len(trace) = 2
    /\ trace[1].calls # <<>>
    /\ trace[2].calls # <<>>

\* The commit verification ended with an error other than not-found.
CommitStepFailed == ShaShaped /\ TheCommit.st = "err"

\* The tag step ended with an error: a transport error, a reference without
\* an object, a failed or unusable tag object, or an object of a type other
\* than commit and tag.
TagRefFailed == TheTagRef.st = "err" \/ (TheTagRef.st = "ok" /\ ~TheTagRef.hasObj)
TagRefUnexpected ==
    TheTagRef.st = "ok" /\ TheTagRef.hasObj /\ TheTagRef.type \notin {"commit", "tag"}
TagObjFailed ==
    IsObject(TheTagRef, "tag") /\ (TheTagObj.st # "ok" \/ ~TheTagObj.hasObj)
TagObjUnexpected ==
    IsObject(TheTagRef, "tag") /\ TheTagObj.st = "ok" /\ TheTagObj.hasObj
        /\ TheTagObj.type # "commit"
TagStepFailed == TagRefFailed \/ TagRefUnexpected \/ TagObjFailed \/ TagObjUnexpected

\* The SHAs of the objects a failed step came upon.
UnexpectedShas ==
    (IF TagRefUnexpected \/ TagObjFailed \/ TagObjUnexpected THEN {TheTagRef.sha} ELSE {})
        \cup (IF TagObjUnexpected THEN {TheTagObj.sha} ELSE {})
        \cup (IF TheBranch.st = "ok" /\ TheBranch.hasObj /\ TheBranch.type # "commit"
              THEN {TheBranch.sha} ELSE {})

\* C26: inside a call with valid arguments a failed step does not end the
\* call: after a commit verification that failed with an error other than
\* not-found the tag reference is looked up next, after a tag step that failed
\* (transport error, failed tag-object fetch, reference or tag object of an
\* unexpected type) the branch reference is looked up and decides the result,
\* and the SHA of an object of unexpected type is never the SHA returned.
C26_FailedStepDoesNotEndCall ==
    (Returned /\ ValidArgs) =>
        /\ CommitStepFailed =>
              (Len(CallOps) >= 2 /\ CallOps[1] = "GetCommit" /\ CallOps[2] = "GetRef/tags")
        /\ (~CommitFound /\ TagStepFailed) =>
              /\ CallOps[Len(CallOps)] = "GetRef/heads"
              /\ BranchFound => (rout.err = NoError /\ rout.sha = TheBranch.sha)
              /\ ~BranchFound => (rout.err # NoError /\ rout.sha = EmptyString)
        /\ rout.sha \notin UnexpectedShas

\* A commit lookup that failed and a tag reference pointing at a tree, and the
\* branch of the same name resolved all the same.
C26_Witness ==
    /\ Returned /\ ValidArgs /\ CommitStepFailed /\ TagRefUnexpected /\ BranchFound
    /\ CallOps = <<"GetCommit", "GetRef/tags", "GetRef/heads">>
    /\ rout.err = NoError /\ rout.sha = TheBranch.sha

\* An annotated tag whose tag object points at another tag: the branch is
\* looked up after the two tag lookups.
C26_WitnessTagObject ==
    /\ Returned /\ ValidArgs /\ TagObjUnexpected /\ ~BranchFound
    /\ CallOps = <<"GetRef/tags", "GetTag", "GetRef/heads">>
    /\ rout.err # NoError

\* The lookups of a call in which every step is tried and the tag reference
\* names a tag object.
AllLookups == <<"GetCommit", "GetRef/tags", "GetTag", "GetRef/heads">>

\* The lookups the remote's answers call for: the commit lookup for a
\* reference shaped like a SHA; unless it found the commit, the tag-reference
\* lookup, and the tag-object lookup if that reference's object is of type
\* `tag`; unless the tag step found a commit, the branch-reference lookup.
ExpectedLookups ==
    (IF ShaShaped THEN <<"GetCommit">> ELSE <<>>)
        \o (IF CommitFound THEN <<>>
            ELSE <<"GetRef/tags">>
                    \o (IF IsObject(TheTagRef, "tag") THEN <<"GetTag">> ELSE <<>>)
                    \o (IF TagFound THEN <<>> ELSE <<"GetRef/heads">>))

\* C30: a call of ResolveRefToSHA returns after at most four remote lookups,
\* each kind at most once and in the order commit, tag reference, tag object,
\* branch reference; the tag object is looked up only if the tag reference's
\* object is of type `tag`; nothing is looked up after the step that
\* succeeded, and nothing at all without a client or with an empty owner,
\* repo or ref.
C30_AtMostFourLookupsInOrder ==
    /\ rpc \in {"call", "ret"}
    /\ ENABLED ResolveCall <=> rpc = "call"
    /\ Returned =>
          /\ Len(rout.calls) <= Len(AllLookups)
          /\ \A i, j \in 1..Len(CallOps) :
                i < j => CallRank(CallOps[i]) < CallRank(CallOps[j])
          /\ (\E i \in 1..Len(CallOps) : CallOps[i] = "GetTag") =>
                IsObject(TheTagRef, "tag")
          /\ ~ValidArgs => rout.calls = <<>>
          /\ ValidArgs => CallOps = ExpectedLookups
          /\ (ValidArgs /\ rout.err = NoError) =>
                CASE CommitFound -> CallOps[Len(CallOps)] = "GetCommit"
                  [] ~CommitFound /\ LightweightTag -> CallOps[Len(CallOps)] = "GetRef/tags"
                  [] ~CommitFound /\ AnnotatedTag -> CallOps[Len(CallOps)] = "GetTag"
                  [] OTHER -> CallOps[Len(CallOps)] = "GetRef/heads"

\* The longest call: four lookups, the last of which finds the branch.
C30_Witness ==
    /\ Returned /\ ValidArgs
    /\ CallOps = AllLookups
    /\ rout.err = NoError

\* A call without a client, for a reference the remote knows.
C30_WitnessNoClient ==
    /\ Returned /\ ~rin.client /\ rin.ref # EmptyString /\ TagFound
    /\ rout.calls = <<>> /\ rout.err # NoError

\* The node at a path of content indexes below node, NilNode if there is none.
RECURSIVE NodeAt(_, _)
NodeAt(node, path) ==
    IF path = <<>> THEN node
    ELSE IF Head(path) \in 1..Len(node.content)
    THEN NodeAt(node.content[Head(path)], Tail(path))
    ELSE NilNode

WalkPaths == UNION {[1..n -> 1..4] : n \in 0..4}
WalkTop == fileRoot.content[1]
Prefix(path, n) == SubSeq(path, 1, n)

\* A node below containers only, and below the values of mappings only: every
\* node on the way is a document, mapping or sequence, and in a mapping the
\* way goes through a value, not through the scalar value of a `uses` key.
IsUsesEntry(mapping, i) ==
    /\ i % 2 = 0
    /\ mapping.content[i - 1].kind = "Scalar"
    /\ mapping.content[i - 1].value = <<"uses">>
    /\ mapping.content[i].kind = "Scalar"
BelowContainers(path) ==
    \A n \in 1..Len(path) :
        LET parent == NodeAt(WalkTop, Prefix(path, n - 1))
        IN  /\ parent.kind \in {"Document", "Mapping", "Sequence"}
            /\ path[n] \in 1..Len(parent.content)
            /\ parent.kind = "Mapping" => path[n] % 2 = 0
            /\ (parent.kind = "Mapping" /\ n < Len(path)) => ~IsUsesEntry(parent, path[n])

\* The candidates of the document: the scalar values of `uses` keys below
\* containers.
CandidatePaths ==
    {path \in WalkPaths :
        /\ path # <<>>
        /\ BelowContainers(path)
        /\ NodeAt(WalkTop, Prefix(path, Len(path) - 1)).kind = "Mapping"
        /\ IsUsesEntry(NodeAt(WalkTop, Prefix(path, Len(path) - 1)), path[Len(path)])}

\* Document order of two paths: the first index in which they differ decides.
Before(p, q) ==
    \E n \in 1..Len(p) :
        /\ n <= Len(q)
        /\ Prefix(p, n - 1) = Prefix(q, n - 1)
        /\ p[n] < q[n]

InOrder(paths) ==
    CHOOSE s \in [1..Cardinality(paths) -> paths] :
        \A i, j \in DOMAIN s : i < j => Before(s[i], s[j])

WalkEnded == pc = "walk" /\ pos > Len(Occurrences(fileRoot))

\* What the handler was called with, and what the document calls for.
Visited == [k \in 1..Len(trace) |-> <<trace[k].value, trace[k].line>>]
NodesAt(paths) ==
    [k \in 1..Len(paths) |-> <<NodeAt(WalkTop, paths[k]).value, NodeAt(WalkTop, paths[k]).line>>]

\* C28: the walk hands to the handler the scalar value of every `uses` key
\* of a mapping at any depth below documents, mappings and sequences, each
\* once and in document order, and nothing else: the values of other keys and
\* the container values of `uses` keys are searched, what lies under a scalar
\* or an alias is not.
C28_WalkVisitsEveryUsesOnce ==
    pc = "walk" =>
        \E expected \in {NodesAt(InOrder(CandidatePaths))} :
            /\ Len(Visited) <= Len(expected)
            /\ Visited = SubSeq(expected, 1, Len(Visited))
            /\ WalkEnded => Visited = expected

\* A `uses` key with a mapping as value, whose own `uses` entry is visited,
\* next to an alias of a mapping with a `uses` entry, which is not.
C28_Witness ==
    /\ WalkEnded
    /\ WalkTop.content[1].value = <<"uses">>
    /\ WalkTop.content[2].kind = "Mapping"
    /\ WalkTop.content[4].kind = "Alias"
    /\ WalkTop.content[4].content[1].content[1].value = <<"uses">>
    /\ Len(trace) = 2
    /\ CandidatePaths = {<<2, 2>>, <<2, 4, 2>>}

\* A sequence of mappings under `jobs` and a scalar under `Uses`: one
\* occurrence, three levels down.
C28_WitnessSequence ==
    /\ WalkEnded
    /\ WalkTop.content[1].value = <<"Uses">>
    /\ WalkTop.content[2].kind = "Scalar"
    /\ WalkTop.content[4].kind = "Sequence"
    /\ CandidatePaths = {<<4, 1, 2>>}
    /\ Len(trace) = 1

\* The occurrence the walk handles next lies on a line that has an edit.
NextOnEditedLine ==
    /\ pc = "walk"
    /\ pos <= Len(Occurrences(fileRoot))
    /\ Occurrences(fileRoot)[pos].line \in DOMAIN fileUpdates

\* C27: the edit map holds one edit per line and the count is the number of
\* its lines; an edit once scheduled is never replaced, and an occurrence on
\* a line that has an edit already changes neither the map nor the count and
\* issues no remote call.
C27_FirstEditOfLineWins ==
    /\ [](fileUpdatesMade = Cardinality(DOMAIN fileUpdates))
    /\ [][\A l \in DOMAIN fileUpdates :
             l \in DOMAIN fileUpdates' /\ fileUpdates'[l] = fileUpdates[l]]_vars
    /\ [][NextOnEditedLine =>
             /\ fileUpdates' = fileUpdates
             /\ fileUpdatesMade' = fileUpdatesMade
             /\ remoteCalls' = remoteCalls]_vars

\* Two references on line 2, `o/r@v4` then `o/r@main`: the first has its edit
\* and its calls, the second, which alone would have been pinned, has neither.
C27_Witness ==
    /\ pc = "walk"
    /\ ~Update
    /\ Len(trace) = 2
    /\ trace[1].line = 2 /\ trace[2].line = 2
    /\ trace[1].value = <<"o", "/", "r", "@", "v4">>
    /\ trace[2].value = <<"o", "/", "r", "@", "main">>
    /\ trace[1].edited /\ trace[1].calls # <<>>
    /\ ~trace[2].fresh /\ trace[2].calls = <<>>
    /\ remoteCalls = trace[1].calls
    /\ fileUpdatesMade = 1
    /\ fileUpdates[2] = trace[1].edit

\* The same second reference on a line of its own is pinned.
C27_WitnessOtherLine ==
    /\ pc = "walk"
    /\ ~Update
    /\ Len(trace) = 2
    /\ trace[1].line = 2 /\ trace[2].line = 3
    /\ trace[2].value = <<"o", "/", "r", "@", "main">>
    /\ trace[1].edited /\ trace[2].edited
    /\ fileUpdatesMade = 2

SecondPinRunDone ==
    pc = "done" /\ run = "second" /\ ~Update /\ prev.ret.err = "" /\ ret.err = ""

\* C29 (as stated): pin mode run on a file and run again on the resulting
\* file, the remote unchanged, returns the edit count 0 on the second run,
\* whatever the document.
C29_SecondPinRunMakesNoEdits ==
    SecondPinRunDone => ret.n = 0

\* The edits the second pin run counts are the ones its rewrite discards: the
\* second run returns the count 0 whenever no line with an edit begins with
\* something other than `uses:` and `- uses:`, and it never changes the text.
SecondPinRunCountsDiscardedOnly ==
    SecondPinRunDone =>
        /\ ret.n = Cardinality(DiscardedEdits)
        /\ disk = fileData

\* A second pin run after a first run that rewrote a line: nothing left to do.
SecondPinRunAfterRewrite ==
    /\ SecondPinRunDone
    /\ prev.ret.n > 0
    /\ prev.data # fileData
    /\ ret.n = 0
====
